---- MODULE Spec2Model ----
(***************************************************************************)
(* The classification / dispatch / aggregation core of the telecom         *)
(* assistant (orchestration/graph.py) together with the deterministic      *)
(* network path (agents/network_agents.py).                                *)
(*                                                                         *)
(* Text is a sequence of characters.  An ASCII character is the one-letter *)
(* string of itself; a character outside ASCII, and the backtick, is the   *)
(* string "U+XXXX" of its code point, so every element of a text is one    *)
(* character.                                                              *)
(***************************************************************************)
EXTENDS Integers, Sequences, FiniteSets, TLC

(***************************************************************************)
(* Characters and the str methods the code uses                            *)
(***************************************************************************)

\* The characters str.strip() removes and \s matches, among those that occur.
Whitespace == {" ", "\t", "\n"}

\* The ASCII letters: a..z, then the capital of each.
Alphabet ==
  <<"a","b","c","d","e","f","g","h","i","j","k","l","m","n","o","p","q","r","s","t","u","v",
      "w","x","y","z",
    "A","B","C","D","E","F","G","H","I","J","K","L","M","N","O","P","Q","R","S","T","U","V",
        "W","X","Y","Z">>

Digits == {"0", "1", "2", "3", "4", "5", "6", "7", "8", "9"}

\* The small letter of each capital.
LowerOf == [c \in {Alphabet[i] : i \in 27..52} |-> Alphabet[(CHOOSE i \in 27..52 : Alphabet[i] = c) - 26]]

\* The capital of each small letter.
UpperOf == [c \in {Alphabet[i] : i \in 1..26} |-> Alphabet[(CHOOSE i \in 1..26 : Alphabet[i] = c) + 26]]

\* str.lower()
lower(s) == SubSeq([i \in 1..Len(s) |-> IF s[i] \in DOMAIN LowerOf THEN LowerOf[s[i]] ELSE s[i]], 1, Len(s))

\* str.upper()
upper(s) == SubSeq([i \in 1..Len(s) |-> IF s[i] \in DOMAIN UpperOf THEN UpperOf[s[i]] ELSE s[i]], 1, Len(s))

\* The least element of a set of positions, 0 when it is empty.
MinOr0(S) == IF S = {} THEN 0 ELSE CHOOSE x \in S : \A y \in S : x <= y

\* The least j in lo..hi with s[j] in C, and 0 when there is none.
first_in(s, lo, hi, C) ==
  IF \E j \in lo..hi : s[j] \in C
  THEN CHOOSE j \in lo..hi : s[j] \in C /\ \A k \in lo..(j - 1) : s[k] \notin C
  ELSE 0

\* The least j in lo..hi with s[j] not in C, and hi + 1 when there is none.
first_not_in(s, lo, hi, C) ==
  IF \E j \in lo..hi : s[j] \notin C
  THEN CHOOSE j \in lo..hi : s[j] \notin C /\ \A k \in lo..(j - 1) : s[k] \in C
  ELSE hi + 1

\* str.strip(chars)
strip_chars(s, chars) ==
  LET b == first_not_in(s, 1, Len(s), chars)
  IN  IF b > Len(s) THEN <<>>
      ELSE SubSeq(s, b, CHOOSE e \in b..Len(s) : s[e] \notin chars /\ \A k \in (e + 1)..Len(s) : s[k] \in chars)

\* str.strip()
strip(s) == strip_chars(s, Whitespace)

\* sub occurs in s at position i
MatchAt(s, sub, i) ==
  /\ i >= 1
  /\ i + Len(sub) - 1 <= Len(s)
  /\ \A k \in 1..Len(sub) : s[i + k - 1] = sub[k]

\* Python's  sub in s
Contains(s, sub) == \E i \in 1..(Len(s) - Len(sub) + 1) : MatchAt(s, sub, i)

\* any(w in s for w in terms)
any_in(terms, s) == \E k \in 1..Len(terms) : Contains(s, terms[k])

\* The value None, which is no text.
None == <<"None">>

\* (x or "")
or_empty(x) == IF x = None THEN <<>> ELSE x

(***************************************************************************)
(* Keyword tables and fixed messages of orchestration/graph.py             *)
(***************************************************************************)

joke_kw ==
  << <<"j","o","k","e">>,
     <<"f","u","n","n","y">>,
     <<"t","e","l","l"," ","m","e"," ","a"," ","j","o","k","e">>,
     <<"m","a","k","e"," ","m","e"," ","l","a","u","g","h">> >>

billing_terms ==
  << <<"b","i","l","l">>,
     <<"b","i","l","l","i","n","g">>,
     <<"c","h","a","r","g","e">>,
     <<"p","a","y","m","e","n","t">>,
     <<"i","n","v","o","i","c","e">>,
     <<"d","u","e">> >>

network_terms ==
  << <<"n","e","t","w","o","r","k">>,
     <<"s","i","g","n","a","l">>,
     <<"i","n","t","e","r","n","e","t">>,
     <<"o","u","t","a","g","e">>,
     <<"c","o","n","n","e","c","t">>,
     <<"s","l","o","w">> >>

service_terms ==
  << <<"p","l","a","n">>,
     <<"u","p","g","r","a","d","e">>,
     <<"r","e","c","o","m","m","e","n","d">>,
     <<"s","e","r","v","i","c","e"," ","p","l","a","n">>,
     <<"s","w","i","t","c","h"," ","p","l","a","n">> >>

knowledge_terms ==
  << <<"h","o","w"," ","t","o">>,
     <<"h","o","w"," ","d","o"," ","i">>,
     <<"c","o","m","p","a","t","i","b">>,
     <<"s","e","t","u","p">>,
     <<"g","u","i","d","e">>,
     <<"w","h","a","t"," ","i","s">> >>

topic_hints ==
  << <<"p","l","a","n">>,
     <<"b","i","l","l","i","n","g">>,
     <<"n","e","t","w","o","r","k">>,
     <<"s","i","g","n","a","l">>,
     <<"s","e","r","v","i","c","e">>,
     <<"p","h","o","n","e">>,
     <<"d","a","t","a">> >>

EMPTY_INPUT_MSG ==
  <<"I","t"," ","l","o","o","k","s"," ","l","i","k","e"," ","y","o","u"," ","d","i","d","n","'",
    "t"," ","a","s","k"," ","a","n","y","t","h","i","n","g"," ","U+2014"," ","p","l","e","a",
    "s","e"," ","t","y","p","e"," ","y","o","u","r"," ","q","u","e","s","t","i","o","n"," ","a",
    "b","o","u","t"," ","b","i","l","l","i","n","g",","," ","n","e","t","w","o","r","k",","," ",
    "s","e","r","v","i","c","e"," ","p","l","a","n","s",","," ","o","r"," ","t","e","c","h","n",
    "i","c","a","l"," ","s","u","p","p","o","r","t",".">>

FALLBACK_MSG ==
  <<"I","'","m"," ","s","o","r","r","y",","," ","I"," ","c","o","u","l","d","n","'","t"," ","u",
    "n","d","e","r","s","t","a","n","d"," ","y","o","u","r"," ","r","e","q","u","e","s","t",".",
    " ","P","l","e","a","s","e"," ","a","s","k"," ","a","b","o","u","t"," ","b","i","l","l","i",
    "n","g",","," ","n","e","t","w","o","r","k"," ","i","s","s","u","e","s",","," ","s","e","r",
    "v","i","c","e"," ","p","l","a","n","s",","," ","o","r"," ","t","e","c","h","n","i","c","a",
    "l"," ","s","u","p","p","o","r","t",".">>

fallback_jokes == <<<<"W","h","y"," ","d","o","n","'","t"," ","s","e","c","r","e","t","s"," ",
    "l","a","s","t"," ","i","n"," ","t","e","l","e","c","o","m","?"," ","B","e","c","a","u",
    "s","e"," ","t","h","e","y"," ","a","l","w","a","y","s"," ","g","e","t"," ","l","e","a",
    "k","e","d"," ","t","h","r","o","u","g","h"," ","t","h","e"," ","n","e","t","w","o","r",
    "k","!"," ","U+1F604">>, <<"W","h","y"," ","d","i","d"," ","t","h","e"," ","m","o","b","i",
    "l","e"," ","p","l","a","n"," ","g","o"," ","t","o"," ","t","h","e","r","a","p","y","?",
    " ","I","t"," ","h","a","d"," ","t","o","o"," ","m","a","n","y"," ","u","n","r","e","s",
    "o","l","v","e","d"," ","i","s","s","u","e","s","!"," ","U+1F4F1","U+1F602">>, <<"W","h",
    "y"," ","w","a","s"," ","t","h","e"," ","c","e","l","l"," ","t","o","w","e","r"," ","s",
    "o"," ","c","a","l","m","?"," ","I","t"," ","h","a","d"," ","g","r","e","a","t"," ","r",
    "e","c","e","p","t","i","o","n","!"," ","U+1F4F6","U+1F642">>, <<"W","h","y"," ","d","i",
    "d"," ","t","h","e"," ","c","u","s","t","o","m","e","r"," ","b","r","i","n","g"," ","a",
    " ","l","a","d","d","e","r"," ","t","o"," ","t","h","e"," ","n","e","t","w","o","r","k",
    " ","t","e","s","t","?"," ","T","o"," ","g","e","t"," ","b","e","t","t","e","r"," ","c",
    "o","v","e","r","a","g","e","!"," ","U+1F606">>>>

(***************************************************************************)
(* External collaborators.  Each call either returns a text or raises an   *)
(* exception with a message; the call record is what the call log keeps.   *)
(***************************************************************************)

Returns(t) == [kind |-> "return", text |-> t]

Raises(m) == [kind |-> "raise", text |-> m]

\* The outcome handed to a call site that is not reached.
NotCalled == [kind |-> "none", text |-> <<>>]

\* One entry of the call log: the collaborator, the text it was called with and
\* what it did.
Call(fn, arg, outcome) == [fn |-> fn, arg |-> arg, kind |-> outcome.kind, text |-> outcome.text]

\* What a node hands back to the graph: the partial state update it returns,
\* or the exception it lets escape, and the external calls it made.
\* responses is the list multi_node collects, empty for every other node.
NodeReturn(update, calls) ==
  [raised |-> FALSE, error |-> <<>>, update |-> update, calls |-> calls, responses |-> <<>>]

NodeRaise(message, calls) ==
  [raised |-> TRUE, error |-> message, update |-> <<>>, calls |-> calls, responses |-> <<>>]

(***************************************************************************)
(* classify_query                                                          *)
(***************************************************************************)

\* A faulty variant of present: the matching terms are counted, not the
\* groups that have one.
present_counting_terms(q_lower) ==
  Cardinality({k \in 1..Len(billing_terms) : Contains(q_lower, billing_terms[k])})
  + Cardinality({k \in 1..Len(network_terms) : Contains(q_lower, network_terms[k])})
  + Cardinality({k \in 1..Len(service_terms) : Contains(q_lower, service_terms[k])})
  + Cardinality({k \in 1..Len(knowledge_terms) : Contains(q_lower, knowledge_terms[k])})

\* sum([billing_kw, network_kw, service_kw, knowledge_kw])
present(q_lower) ==
  (IF any_in(billing_terms, q_lower) THEN 1 ELSE 0) + (IF any_in(network_terms, q_lower) THEN 1 ELSE 0)
  + (IF any_in(service_terms, q_lower) THEN 1 ELSE 0) + (IF any_in(knowledge_terms, q_lower) THEN 1 ELSE 0)

\* The normalisation of the label the inference call returned.
normalize_category(content) ==
  LET category == upper(strip(content))
  IN  IF Contains(category, <<"B","I","L","L","I","N","G">>) THEN "BILLING"
      ELSE IF Contains(category, <<"N","E","T","W","O","R","K">>) THEN "NETWORK"
      ELSE IF Contains(category, <<"S","E","R","V","I","C","E">>) THEN "SERVICE"
      ELSE IF Contains(category, <<"K","N","O","W","L","E","D","G","E">>) THEN "KNOWLEDGE"
      ELSE "OTHER"

\* The heuristics of classify_query decide the query without the inference call:
\* it is empty, or has a joke keyword or a term of a group.
heuristics_decide(state) ==
  LET q_lower == lower(strip(or_empty(state.query)))
  IN  q_lower = <<>> \/ any_in(joke_kw, q_lower) \/ present(q_lower) > 0

\* A faulty variant of classify_keywords: a query counts as multi-intent only
\* when more than two groups match.
classify_keywords_three(query, q_lower, llm) ==
  IF any_in(joke_kw, q_lower) THEN NodeReturn([category |-> "JOKE"], <<>>)
  ELSE IF present(q_lower) > 2 THEN NodeReturn([category |-> "MULTI"], <<>>)
  ELSE IF any_in(billing_terms, q_lower) THEN NodeReturn([category |-> "BILLING"], <<>>)
  ELSE IF any_in(network_terms, q_lower) THEN NodeReturn([category |-> "NETWORK"], <<>>)
  ELSE IF any_in(service_terms, q_lower) THEN NodeReturn([category |-> "SERVICE"], <<>>)
  ELSE IF any_in(knowledge_terms, q_lower) THEN NodeReturn([category |-> "KNOWLEDGE"], <<>>)
  ELSE IF llm.kind = "raise" THEN NodeRaise(llm.text, <<Call("classify_llm", query, llm)>>)
  ELSE NodeReturn([category |-> normalize_category(llm.text)],
                  <<Call("classify_llm", query, llm)>>)

\* A faulty variant of classify_keywords: one matching group is enough for
\* MULTI.
classify_keywords_multi_from_one(query, q_lower, llm) ==
  IF any_in(joke_kw, q_lower) THEN NodeReturn([category |-> "JOKE"], <<>>)
  ELSE IF present(q_lower) >= 1 THEN NodeReturn([category |-> "MULTI"], <<>>)
  ELSE IF llm.kind = "raise" THEN NodeRaise(llm.text, <<Call("classify_llm", query, llm)>>)
  ELSE NodeReturn([category |-> normalize_category(llm.text)],
                  <<Call("classify_llm", query, llm)>>)

\* A faulty variant of classify_keywords: the inference call is made before
\* the keyword tests.
classify_keywords_call_first(query, q_lower, llm) ==
  IF any_in(joke_kw, q_lower)
  THEN NodeReturn([category |-> "JOKE"], <<Call("classify_llm", query, llm)>>)
  ELSE IF present(q_lower) > 1
  THEN NodeReturn([category |-> "MULTI"], <<Call("classify_llm", query, llm)>>)
  ELSE IF present(q_lower) = 1
  THEN NodeReturn([category |-> IF any_in(billing_terms, q_lower) THEN "BILLING"
                                ELSE IF any_in(network_terms, q_lower) THEN "NETWORK"
                                ELSE IF any_in(service_terms, q_lower) THEN "SERVICE"
                                ELSE "KNOWLEDGE"],
                  <<Call("classify_llm", query, llm)>>)
  ELSE IF llm.kind = "raise" THEN NodeRaise(llm.text, <<Call("classify_llm", query, llm)>>)
  ELSE NodeReturn([category |-> normalize_category(llm.text)],
                  <<Call("classify_llm", query, llm)>>)

\* A faulty variant of classify_keywords: the joke keywords are tested after
\* the four groups.
classify_keywords_joke_last(query, q_lower, llm) ==
  IF present(q_lower) > 1 THEN NodeReturn([category |-> "MULTI"], <<>>)
  ELSE IF any_in(billing_terms, q_lower) THEN NodeReturn([category |-> "BILLING"], <<>>)
  ELSE IF any_in(network_terms, q_lower) THEN NodeReturn([category |-> "NETWORK"], <<>>)
  ELSE IF any_in(service_terms, q_lower) THEN NodeReturn([category |-> "SERVICE"], <<>>)
  ELSE IF any_in(knowledge_terms, q_lower) THEN NodeReturn([category |-> "KNOWLEDGE"], <<>>)
  ELSE IF any_in(joke_kw, q_lower) THEN NodeReturn([category |-> "JOKE"], <<>>)
  ELSE IF llm.kind = "raise" THEN NodeRaise(llm.text, <<Call("classify_llm", query, llm)>>)
  ELSE NodeReturn([category |-> normalize_category(llm.text)],
                  <<Call("classify_llm", query, llm)>>)

\* classify_query from the keyword tests on: query is the trimmed query and
\* q_lower its lower case.
classify_keywords(query, q_lower, llm) ==
  IF any_in(joke_kw, q_lower) THEN NodeReturn([category |-> "JOKE"], <<>>)
  ELSE IF present(q_lower) > 1 THEN NodeReturn([category |-> "MULTI"], <<>>)
  ELSE IF any_in(billing_terms, q_lower) THEN NodeReturn([category |-> "BILLING"], <<>>)
  ELSE IF any_in(network_terms, q_lower) THEN NodeReturn([category |-> "NETWORK"], <<>>)
  ELSE IF any_in(service_terms, q_lower) THEN NodeReturn([category |-> "SERVICE"], <<>>)
  ELSE IF any_in(knowledge_terms, q_lower) THEN NodeReturn([category |-> "KNOWLEDGE"], <<>>)
  ELSE IF llm.kind = "raise" THEN NodeRaise(llm.text, <<Call("classify_llm", query, llm)>>)
  ELSE NodeReturn([category |-> normalize_category(llm.text)],
                  <<Call("classify_llm", query, llm)>>)

\* A faulty variant of classify_query: the query is tested for emptiness
\* before it is trimmed.
classify_query_untrimmed(state, llm) ==
  IF or_empty(state.query) = <<>> THEN NodeReturn([category |-> "EMPTY"], <<>>)
  ELSE classify_keywords(strip(or_empty(state.query)),
                         lower(strip(or_empty(state.query))), llm)

\* llm is the outcome of chain.invoke, used only when no heuristic decides.
classify_query(state, llm) ==
  IF strip(or_empty(state.query)) = <<>> THEN NodeReturn([category |-> "EMPTY"], <<>>)
  ELSE classify_keywords(strip(or_empty(state.query)),
                         lower(strip(or_empty(state.query))), llm)

(***************************************************************************)
(* route_query                                                             *)
(***************************************************************************)

\* A faulty variant of route_query: the billing and the network handler are
\* exchanged.
route_query_exchanged(state) ==
  LET category == state.category
  IN  IF category = "EMPTY" THEN "empty_input_handler"
      ELSE IF category = "JOKE" THEN "joke_node"
      ELSE IF category = "MULTI" THEN "multi_node"
      ELSE IF category = "BILLING" THEN "autogen_node"
      ELSE IF category = "NETWORK" THEN "crew_ai_node"
      ELSE IF category = "SERVICE" THEN "langchain_node"
      ELSE IF category = "KNOWLEDGE" THEN "llamaindex_node"
      ELSE "fallback_handler"

route_query(state) ==
  LET category == state.category
  IN  IF category = "EMPTY" THEN "empty_input_handler"
      ELSE IF category = "JOKE" THEN "joke_node"
      ELSE IF category = "MULTI" THEN "multi_node"
      ELSE IF category = "BILLING" THEN "crew_ai_node"
      ELSE IF category = "NETWORK" THEN "autogen_node"
      ELSE IF category = "SERVICE" THEN "langchain_node"
      ELSE IF category = "KNOWLEDGE" THEN "llamaindex_node"
      ELSE "fallback_handler"

(***************************************************************************)
(* The nodes without a domain handler                                      *)
(***************************************************************************)

empty_input_handler(state) == NodeReturn([response |-> EMPTY_INPUT_MSG], <<>>)

fallback_handler(state) == NodeReturn([response |-> FALLBACK_MSG], <<>>)

\* The first hint of topic_hints the query contains, "" when there is none.
joke_topic(q_lower) ==
  LET hit == MinOr0({k \in 1..Len(topic_hints) : Contains(q_lower, topic_hints[k])})
  IN  IF hit = 0 THEN <<>> ELSE topic_hints[hit]

\* The first fallback joke that mentions the topic, 0 when there is none or the
\* topic is "".
joke_about(topic) ==
  IF topic = <<>> THEN 0
  ELSE MinOr0({k \in 1..Len(fallback_jokes) : Contains(lower(fallback_jokes[k]), topic)})

\* joke_node once the inference call on the topic has had the outcome llm.
joke_reply(topic, llm, pick) ==
  IF llm.kind = "return" /\ strip(llm.text) # <<>>
  THEN NodeReturn([response |-> strip(llm.text)], <<Call("joke_llm", topic, llm)>>)
  ELSE IF joke_about(topic) # 0
  THEN NodeReturn([response |-> fallback_jokes[joke_about(topic)]],
                  <<Call("joke_llm", topic, llm)>>)
  ELSE NodeReturn([response |-> fallback_jokes[pick]], <<Call("joke_llm", topic, llm)>>)

\* llm is the outcome of the joke inference call, pick the index random.choice draws.
joke_node(state, llm, pick) ==
  joke_reply(joke_topic(lower(strip(or_empty(state.query)))), llm, pick)

(***************************************************************************)
(* _sanitize_response: nine re.sub passes and a strip.                     *)
(*                                                                         *)
(* re.sub scans the text from the left; at the leftmost position where the *)
(* pattern matches it emits the replacement and goes on after the match.   *)
(* For each pattern, match_end gives the last position of the match that   *)
(* starts at i (0 when the pattern does not match at i) and replacement    *)
(* the text that takes its place.  No pattern matches the empty text.      *)
(***************************************************************************)

\* The least j in lo..hi where sub occurs in s, and 0 when there is none.
first_occurrence(s, sub, lo, hi) ==
  IF \E j \in lo..hi : MatchAt(s, sub, j)
  THEN CHOOSE j \in lo..hi : MatchAt(s, sub, j) /\ \A k \in lo..(j - 1) : ~MatchAt(s, sub, k)
  ELSE 0

\* ^ under re.M
at_line_start(s, i) == i = 1 \/ s[i - 1] = "\n"

no_newline(s, lo, hi) == \A k \in lo..hi : s[k] # "\n"

\* r"```.*?```" with re.S
fence_end(s, i) ==
  IF ~MatchAt(s, <<"U+0060", "U+0060", "U+0060">>, i) THEN 0
  ELSE LET j == first_occurrence(s, <<"U+0060", "U+0060", "U+0060">>, i + 3, Len(s)) IN IF j = 0 THEN 0 ELSE j + 2

\* r"<[^>]+>"
tag_end(s, i) ==
  IF s[i] # "<" THEN 0
  ELSE LET j == first_in(s, i + 1, Len(s), {">"}) IN IF j = 0 \/ j = i + 1 THEN 0 ELSE j

\* r"^#{1,6}\s*" with re.M
heading_end(s, i) ==
  IF ~(at_line_start(s, i) /\ s[i] = "#") THEN 0
  ELSE LET run == first_not_in(s, i, Len(s), {"#"}) - i
           hashes == IF run > 6 THEN 6 ELSE run
       IN  first_not_in(s, i + hashes, Len(s), Whitespace) - 1

\* r"(\*\*|__)(.*?)\1": the position of the closing marker, 0 when there is no match
bold_close(s, i) ==
  IF ~(MatchAt(s, <<"*", "*">>, i) \/ MatchAt(s, <<"_", "_">>, i)) THEN 0
  ELSE LET j == first_occurrence(s, <<s[i], s[i]>>, i + 2, Len(s))
       IN  IF j # 0 /\ no_newline(s, i + 2, j - 1) THEN j ELSE 0

\* r"(\*|_)(.*?)\1": the position of the closing marker, 0 when there is no match
italic_close(s, i) ==
  IF s[i] \notin {"*", "_"} THEN 0
  ELSE LET j == first_in(s, i + 1, Len(s), {s[i]})
       IN  IF j # 0 /\ no_newline(s, i + 1, j - 1) THEN j ELSE 0

\* r"\[([^\]]+)\]\([^\)]+\)": the position of the "]", 0 when there is no match
link_bracket(s, i) ==
  IF s[i] # "[" THEN 0
  ELSE LET j == first_in(s, i + 1, Len(s), {"]"})
       IN  IF j = 0 \/ j = i + 1 \/ j = Len(s) THEN 0
           ELSE IF s[j + 1] # "(" THEN 0
           ELSE LET k == first_in(s, j + 2, Len(s), {")"})
                IN  IF k = 0 \/ k = j + 2 THEN 0 ELSE j

\* r"^-{3,}$" with re.M
rule_end(s, i) ==
  IF ~(at_line_start(s, i) /\ s[i] = "-") THEN 0
  ELSE LET e == first_not_in(s, i, Len(s), {"-"}) - 1
       IN  IF e - i + 1 >= 3 /\ (e = Len(s) \/ s[e + 1] = "\n") THEN e ELSE 0

\* r"\n{3,}"
newlines_end(s, i) ==
  IF s[i] # "\n" THEN 0
  ELSE LET e == first_not_in(s, i, Len(s), {"\n"}) - 1 IN IF e - i + 1 >= 3 THEN e ELSE 0

match_end(pat, s, i) ==
  CASE pat = "fence" -> fence_end(s, i)
    [] pat = "tag" -> tag_end(s, i)
    [] pat = "heading" -> heading_end(s, i)
    [] pat = "bold" -> (IF bold_close(s, i) = 0 THEN 0 ELSE bold_close(s, i) + 1)
    [] pat = "italic" -> italic_close(s, i)
    [] pat = "link" ->
         (IF link_bracket(s, i) = 0 THEN 0
          ELSE first_in(s, link_bracket(s, i) + 2, Len(s), {")"}))
    [] pat = "pipe" -> (IF s[i] = "|" THEN i ELSE 0)
    [] pat = "rule" -> rule_end(s, i)
    [] pat = "newlines" -> newlines_end(s, i)

replacement(pat, s, i) ==
  CASE pat = "bold" -> SubSeq(s, i + 2, bold_close(s, i) - 1)
    [] pat = "italic" -> SubSeq(s, i + 1, italic_close(s, i) - 1)
    [] pat = "link" -> SubSeq(s, i + 1, link_bracket(s, i) - 1)
    [] pat = "pipe" -> <<" ", "|", " ">>
    [] pat = "newlines" -> <<"\n", "\n">>
    [] OTHER -> <<>>

\* The characters a match of the pattern can start with.
first_chars(pat) ==
  CASE pat = "fence" -> {"U+0060"}
    [] pat = "tag" -> {"<"}
    [] pat = "heading" -> {"#"}
    [] pat = "bold" -> {"*", "_"}
    [] pat = "italic" -> {"*", "_"}
    [] pat = "link" -> {"["}
    [] pat = "pipe" -> {"|"}
    [] pat = "rule" -> {"-"}
    [] pat = "newlines" -> {"\n"}

\* The leftmost position from pos on where the pattern matches, 0 when none.
first_match(pat, s, pos) ==
  MinOr0({i \in pos..Len(s) : s[i] \in first_chars(pat) /\ match_end(pat, s, i) > 0})

RECURSIVE re_sub_from(_, _, _)
\* re.sub from position pos on, where i is the leftmost match from pos on
re_sub_at(pat, s, pos, i) ==
  IF i = 0 THEN SubSeq(s, pos, Len(s))
  ELSE SubSeq(s, pos, i - 1) \o replacement(pat, s, i)
         \o re_sub_from(pat, s, match_end(pat, s, i) + 1)

\* re.sub(pattern, repl, s), from position pos on
re_sub_from(pat, s, pos) == re_sub_at(pat, s, pos, first_match(pat, s, pos))

\* The patterns of _sanitize_response, in the order it applies them.
sanitize_passes ==
  <<"fence", "tag", "heading", "bold", "italic", "link", "pipe", "rule", "newlines">>

RECURSIVE re_sub_all(_, _)
\* text = re.sub(...) for each pattern of pats in turn
re_sub_all(pats, text) ==
  IF pats = <<>> THEN text ELSE re_sub_all(Tail(pats), re_sub_from(Head(pats), text, 1))

sanitize_response(text) ==
  IF text = None THEN <<>> ELSE strip(re_sub_all(sanitize_passes, text))

(***************************************************************************)
(* The nodes of the domain handlers.  outcome is what the handler did:     *)
(* it returned a text or raised.                                           *)
(***************************************************************************)

\* try: sanitize(str(result))  except Exception as e: sanitize(f"{prefix}{e}")
handler_response(prefix, outcome) ==
  sanitize_response(IF outcome.kind = "return" THEN outcome.text ELSE prefix \o outcome.text)

\* A faulty variant of crew_ai_node: the node's update also carries a category.
crew_ai_node_recategorised(state, outcome) ==
  NodeReturn([category |-> "HANDLED", response |-> handler_response(<<>>, outcome)],
             <<Call("process_billing_query", state.query, outcome)>>)

crew_ai_node(state, outcome) ==
  NodeReturn([response |-> handler_response(<<"E","r","r","o","r"," ","i","n"," ","B","i","l",
      "l","i","n","g"," ","A","g","e","n","t",":"," ">>, outcome)],
             <<Call("process_billing_query", state.query, outcome)>>)

langchain_node(state, outcome) ==
  NodeReturn([response |-> handler_response(<<"E","r","r","o","r"," ","i","n"," ","S","e","r",
      "v","i","c","e"," ","A","g","e","n","t",":"," ">>, outcome)],
             <<Call("process_recommendation_query", state.query, outcome)>>)

llamaindex_node(state, outcome) ==
  NodeReturn([response |-> handler_response(<<"E","r","r","o","r"," ","i","n"," ","K","n","o",
      "w","l","e","d","g","e"," ","A","g","e","n","t",":"," ">>, outcome)],
             <<Call("process_knowledge_query", state.query, outcome)>>)

(***************************************************************************)
(* agents/network_agents.py: the extractor                                 *)
(***************************************************************************)

Letters == DOMAIN LowerOf \cup DOMAIN UpperOf

\* [a-z0-9]
LowerAlnum == DOMAIN UpperOf \cup Digits

\* \w
WordChars == Letters \cup Digits \cup {"_"}

location_anchors ==
  << <<"i","n">>,
     <<"a","t">>,
     <<"n","e","a","r">> >>

home_anchor_words ==
  << <<"f","r","o","m">>,
     <<"m","y">>,
     <<"h","o","m","e">> >>

filler_words ==
  << <<"m","y">>,
     <<"h","o","m","e">>,
     <<"a","p","a","r","t","m","e","n","t">>,
     <<"h","o","u","s","e">>,
     <<"o","f","f","i","c","e">>,
     <<"r","o","o","m">> >>

\* The last position of  w \s+  matched at i (the whitespace taken greedily, at
\* least one character of it), and 0 when it does not match there.
word_ws_end(s, w, i) ==
  IF MatchAt(s, w, i) /\ i + Len(w) <= Len(s) /\ s[i + Len(w)] \in Whitespace
  THEN first_not_in(s, i + Len(w), Len(s), Whitespace) - 1
  ELSE 0

\* w \s+  after a match that ended at e, 0 when there was none
next_word_ws_end(s, w, e) == IF e = 0 THEN 0 ELSE word_ws_end(s, w, e + 1)

\* The anchor after a match that ended at e, 0 when there was none.
anchor_after(s, anchor, e) ==
  IF e # 0 /\ MatchAt(s, anchor, e + 1) THEN e + Len(anchor) ELSE 0

\* The last position of  from\s+my\s+home\s+<anchor>  matched at i, else 0.
home_anchor_end(s, anchor, i) ==
  anchor_after(s, anchor,
    next_word_ws_end(s, home_anchor_words[3],
      next_word_ws_end(s, home_anchor_words[2],
        word_ws_end(s, home_anchor_words[1], i))))

\* The last position of alternative n of pattern p's anchor matched at i, else
\* 0.  Pattern 1 lists from\s+my\s+home\s+in, from\s+my\s+home\s+at, in, at,
\* near; patterns 2 and 3 list in, at, near.
anchor_end(p, s, n, i) ==
  IF p = 1 /\ n <= 2 THEN home_anchor_end(s, location_anchors[n], i)
  ELSE LET anchor == location_anchors[IF p = 1 THEN n - 2 ELSE n]
       IN  IF MatchAt(s, anchor, i) THEN i + Len(anchor) - 1 ELSE 0

\* ,?\s*[A-Za-z]*$ from position p on
letters_to_end(s, p) ==
  first_not_in(s, first_not_in(s, p, Len(s), Whitespace), Len(s), Letters) = Len(s) + 1

\* The terminator of pattern p matches after position e.
term_ok(p, s, e) ==
  CASE p = 1 -> e = Len(s) \/ s[e + 1] \in {".", "!", "?"}     \* (?:[\.!?]|$)
    [] p = 2 -> e = Len(s)                                      \* $
    [] p = 3 -> \/ e < Len(s) /\ s[e + 1] = "," /\ letters_to_end(s, e + 2)
                \/ letters_to_end(s, e + 1)                     \* ,?\s*[A-Za-z]*$

\* The greatest element of a set of positions, 0 when it is empty.
MaxOr0(S) == IF S = {} THEN 0 ELSE CHOOSE x \in S : \A y \in S : y <= x

\* The positions within the group's run, from b on, after which the terminator
\* of pattern p matches.
group_ends(p, s, b, run_end) == {e \in b..run_end : term_ok(p, s, e)}

\* The group <<b, e>> that starts at b and is as long as can be; <<0, 0>> for b = 0.
group_from(p, s, b, run_end) ==
  IF b = 0 THEN <<0, 0>> ELSE <<b, MaxOr0(group_ends(p, s, b, run_end))>>

\* After an anchor ending at a:  \s+ ([chars]+) <terminator>  with both quantifiers
\* greedy.  \s+ takes from the wsrun whitespace characters after the anchor as
\* many as leave a group that the terminator can follow, and the group then
\* ends at the last position of its run, run_end at most, after which the
\* terminator matches.
group_in_run(p, s, a, wsrun, run_end) ==
  group_from(p, s,
             MaxOr0({b \in (a + 2)..(a + 1 + wsrun) : group_ends(p, s, b, run_end) # {}}),
             run_end)

\* The group <<b, e>> of pattern p after an anchor ending at a, <<0, 0>> when the
\* pattern does not match there or a = 0.
group_after_anchor(p, s, a, chars) ==
  IF a = 0 THEN <<0, 0>>
  ELSE group_in_run(p, s, a,
                    first_not_in(s, a + 1, Len(s), Whitespace) - (a + 1),
                    first_not_in(s, a + 2, Len(s), chars) - 1)

\* The characters of the group of pattern p.
group_chars(p) ==
  IF p = 3 THEN Letters \cup Whitespace \cup {"-"}                   \* [A-Za-z\s\-]
  ELSE Letters \cup Digits \cup Whitespace \cup {"-", ".", ","}       \* [A-Za-z0-9\s\-\.,]

\* The group of pattern p for a match at i through alternative n of the anchor.
pattern_alt(p, s, n, i) == group_after_anchor(p, s, anchor_end(p, s, n, i), group_chars(p))

pattern_pick(p, s, n, i) == IF n = 0 THEN <<0, 0>> ELSE pattern_alt(p, s, n, i)

\* The group of pattern p for a match that starts at i: the first alternative, in
\* order, that leads to a match decides.
pattern_at(p, s, i) ==
  pattern_pick(p, s, MinOr0({n \in 1..(IF p = 1 THEN 5 ELSE 3) : pattern_alt(p, s, n, i) # <<0, 0>>}), i)

search_from(p, s, i) ==
  IF i = 0 THEN None ELSE SubSeq(s, pattern_at(p, s, i)[1], pattern_at(p, s, i)[2])

\* re.search(patterns[p], s).group(1), or None
search_location(p, s) ==
  search_from(p, s, MinOr0({i \in 1..Len(s) : s[i] \in {"f", "i", "a", "n"}
                                              /\ pattern_at(p, s, i) # <<0, 0>>}))

\* \b at the gap before position i
word_boundary(s, i) ==
  (i > 1 /\ s[i - 1] \in WordChars) # (i <= Len(s) /\ s[i] \in WordChars)

\* The filler word that matches at i between two word boundaries, 0 when none.
filler_at(s, i) ==
  MinOr0({n \in 1..Len(filler_words) :
            /\ MatchAt(s, filler_words[n], i)
            /\ word_boundary(s, i)
            /\ word_boundary(s, i + Len(filler_words[n]))})

RECURSIVE remove_fillers_from(_, _)
\* The removal from position pos on, where i is the leftmost filler from pos on.
remove_filler_at(s, pos, i) ==
  IF i = 0 THEN SubSeq(s, pos, Len(s))
  ELSE SubSeq(s, pos, i - 1) \o remove_fillers_from(s, i + Len(filler_words[filler_at(s, i)]))

\* re.sub(r"\b(my|home|apartment|house|office|room)\b", "", s), from position pos on
remove_fillers_from(s, pos) ==
  remove_filler_at(s, pos, MinOr0({i \in pos..Len(s) : filler_at(s, i) # 0}))

\* The group of the first of the three patterns that matches, else None.
first_group(g1, g2, g3) == IF g1 # None THEN g1 ELSE IF g2 # None THEN g2 ELSE g3

\* location = m.group(1).strip().strip(".,")
clean_location(g) == IF g = None THEN None ELSE strip_chars(strip(g), {".", ","})

\* if location: location = re.sub(fillers, "", location).strip()
without_fillers(location) ==
  IF location = None \/ location = <<>> THEN location
  ELSE strip(remove_fillers_from(location, 1))

extract_location(q_lower) ==
  without_fillers(clean_location(first_group(search_location(1, q_lower),
                                             search_location(2, q_lower),
                                             search_location(3, q_lower))))
device_words ==
  << <<"i","p","h","o","n","e">>,
     <<"i","p","a","d">>,
     <<"s","a","m","s","u","n","g">>,
     <<"g","a","l","a","x","y">>,
     <<"p","i","x","e","l">>,
     <<"o","n","e","p","l","u","s">>,
     <<"x","i","a","o","m","i">>,
     <<"m","i">> >>

\* The first position from p on that holds no whitespace.
after_ws(s, p) == first_not_in(s, p, Len(s), Whitespace)

\* The last position of the word w matched at i, else 0.
word_end(s, w, i) == IF MatchAt(s, w, i) THEN i + Len(w) - 1 ELSE 0

\* \s*[chars]*  after a word that ended at e: its last position, 0 for e = 0
ws_run_end(s, e, chars) ==
  IF e = 0 THEN 0 ELSE first_not_in(s, after_ws(s, e + 1), Len(s), chars) - 1

\* galaxy\s*[a-z0-9]*  from position g on, after samsung\s*
galaxy_end(s, g) ==
  IF ~MatchAt(s, device_words[4], g) THEN 0
  ELSE first_not_in(s, after_ws(s, g + Len(device_words[4])), Len(s), LowerAlnum) - 1

\* [0-9]+  after a word that ended at e: its last position, 0 when there is no digit
digits_end(s, e) ==
  IF e = 0 \/ e = Len(s) \/ s[e + 1] \notin Digits THEN 0
  ELSE first_not_in(s, e + 1, Len(s), Digits) - 1

\* \s?[a-z0-9]*  after a word that ended at e: its last position, 0 for e = 0
opt_ws_run_end(s, e) ==
  IF e = 0 THEN 0
  ELSE first_not_in(s, IF e < Len(s) /\ s[e + 1] \in Whitespace THEN e + 2 ELSE e + 1,
                    Len(s), LowerAlnum) - 1

\* The alternatives of the device pattern, in the order the pattern lists them:
\* the last position of alternative n matched at i, else 0.  Every quantifier is
\* greedy and nothing follows it, so each run is taken whole.
device_alt_end(s, n, i) ==
  CASE n = 1 -> ws_run_end(s, word_end(s, device_words[1], i), Digits \cup {"x"})  \* iphone\s*[0-9x]*
    [] n = 2 -> word_end(s, device_words[2], i)                                    \* ipad
    [] n = 3 -> (IF ~MatchAt(s, device_words[3], i) THEN 0                         \* samsung\s*galaxy\s*[a-z0-9]*
                 ELSE galaxy_end(s, after_ws(s, i + Len(device_words[3]))))
    [] n = 4 -> word_end(s, device_words[3], i)                                    \* samsung
    [] n = 5 -> ws_run_end(s, word_end(s, device_words[5], i), Digits)             \* pixel\s*[0-9]*
    [] n = 6 -> ws_run_end(s, word_end(s, device_words[6], i), Digits)             \* oneplus\s*[0-9]*
    [] n = 7 -> word_end(s, device_words[7], i)                                    \* xiaomi
    [] n = 8 -> digits_end(s, word_end(s, device_words[8], i))                     \* mi[0-9]+
    [] n = 9 -> opt_ws_run_end(s, word_end(s, device_words[4], i))                 \* galaxy\s?[a-z0-9]*

\* The alternatives of the device pattern that match at i.
device_alts(s, i) == {n \in 1..9 : device_alt_end(s, n, i) # 0}

\* group(0).strip() of the match that starts at i, None for i = 0
device_from(s, i) ==
  IF i = 0 THEN None ELSE strip(SubSeq(s, i, device_alt_end(s, MinOr0(device_alts(s, i)), i)))

\* re.search(device pattern, q_lower): group(0).strip(), or None
extract_device(q_lower) ==
  device_from(q_lower,
              MinOr0({i \in 1..Len(q_lower) :
                        q_lower[i] \in {"i", "s", "p", "o", "x", "m", "g"}
                        /\ device_alts(q_lower, i) # {}}))

\* _extract_location_and_device
extract_location_and_device(query) ==
  [location |-> extract_location(lower(strip(or_empty(query)))),
   device |-> extract_device(lower(strip(or_empty(query))))]

\* Python's truth value of a text or None
truthy(x) == x # None /\ x # <<>>

(***************************************************************************)
(* agents/network_agents.py: status lookup, document search, diagnosis     *)
(***************************************************************************)

NO_LOCATION_PROVIDED_MSG ==
  <<"N","o"," ","s","p","e","c","i","f","i","c"," ","l","o","c","a","t","i","o","n"," ","p","r",
    "o","v","i","d","e","d"," ","t","o"," ","c","h","e","c","k"," ","f","o","r"," ","o","u","t",
    "a","g","e","s",".">>

DB_MISMATCH_MSG ==
  <<"U","n","a","b","l","e"," ","t","o"," ","r","e","a","d"," ","n","e","t","w","o","r","k"," ",
    "i","n","c","i","d","e","n","t"," ","r","e","p","o","r","t","s"," ","d","u","e"," ","t","o",
    " ","a","n"," ","i","n","t","e","r","n","a","l"," ","d","a","t","a","b","a","s","e"," ","m",
    "i","s","m","a","t","c","h","."," ","T","h","i","s"," ","d","o","e","s"," ","n","o","t"," ",
    "p","r","e","v","e","n","t"," ","c","h","e","c","k","i","n","g"," ","o","t","h","e","r"," ",
    "t","r","o","u","b","l","e","s","h","o","o","t","i","n","g"," ","s","t","e","p","s"," ",
    "U+2014"," ","y","o","u"," ","m","a","y"," ","b","e"," ","e","x","p","e","r","i","e","n",
    "c","i","n","g"," ","a"," ","l","o","c","a","l"," ","n","e","t","w","o","r","k"," ","i","s",
    "s","u","e"," ","(","c","a","l","l","s"," ","o","r"," ","d","a","t","a"," ","m","a","y"," ",
    "b","e"," ","s","l","o","w",")"," ","i","n"," ","y","o","u","r"," ","a","r","e","a",".">>

DB_INTERNAL_ERROR_MSG ==
  <<"U","n","a","b","l","e"," ","t","o"," ","c","h","e","c","k"," ","n","e","t","w","o","r","k",
    " ","i","n","c","i","d","e","n","t"," ","r","e","p","o","r","t","s"," ","r","i","g","h","t",
    " ","n","o","w"," ","d","u","e"," ","t","o"," ","a","n"," ","i","n","t","e","r","n","a","l",
    " ","e","r","r","o","r","."," ","T","h","i","s"," ","m","a","y"," ","i","n","d","i","c","a",
    "t","e"," ","t","e","m","p","o","r","a","r","y"," ","i","s","s","u","e","s"," ","w","i","t",
    "h"," ","o","u","r"," ","r","e","p","o","r","t","i","n","g"," ","s","y","s","t","e","m"," ",
    "U+2014"," ","h","o","w","e","v","e","r",","," ","y","o","u"," ","m","a","y"," ","s","t",
    "i","l","l"," ","b","e"," ","e","x","p","e","r","i","e","n","c","i","n","g"," ","a"," ","l",
    "o","c","a","l"," ","n","e","t","w","o","r","k"," ","p","r","o","b","l","e","m"," ","(","s",
    "e","r","v","i","c","e"," ","s","l","o","w"," ","o","r"," ","i","n","t","e","r","m","i","t",
    "t","e","n","t",")",".">>

DOC_INDEX_UNAVAILABLE_MSG ==
  <<"E","r","r","o","r",":"," ","D","o","c","u","m","e","n","t"," ","i","n","d","e","x"," ","n",
    "o","t"," ","a","v","a","i","l","a","b","l","e",".">>

SKIPPING_LOOKUP_MSG ==
  <<"N","o"," ","e","x","p","l","i","c","i","t"," ","l","o","c","a","t","i","o","n"," ","d","e",
    "t","e","c","t","e","d"," ","i","n"," ","y","o","u","r"," ","q","u","e","s","t","i","o","n",
    ";"," ","s","k","i","p","p","i","n","g"," ","o","u","t","a","g","e"," ","l","o","o","k","u",
    "p",".">>

CHECKLIST ==
  <<"I"," ","c","o","u","l","d","n","'","t"," ","f","i","n","d"," ","a"," ","r","e","p","o","r",
    "t","e","d"," ","o","u","t","a","g","e"," ","o","r"," ","a"," ","c","l","e","a","r"," ","d",
    "o","c","-","b","a","s","e","d"," ","f","i","x"," ","f","o","r"," ","y","o","u","r"," ","l",
    "o","c","a","t","i","o","n","/","d","e","v","i","c","e","."," ","L","e","t","'","s"," ","t",
    "r","y"," ","s","o","m","e"," ","q","u","i","c","k"," ","t","r","o","u","b","l","e","s","h",
    "o","o","t","i","n","g"," ","a","n","d"," ","c","o","l","l","e","c","t"," ","m","o","r","e",
    " ","i","n","f","o","r","m","a","t","i","o","n",":","\n","\n","Q","u","i","c","k"," ","c",
    "h","e","c","k","s"," ","(","d","o"," ","t","h","e","s","e"," ","f","i","r","s","t",")",":",
    "\n","1","."," ","T","o","g","g","l","e"," ","A","i","r","p","l","a","n","e"," ","M","o",
    "d","e"," ","O","N"," ","U+2192"," ","w","a","i","t"," ","5","s"," ","U+2192"," ","O","F",
    "F",".","\n","2","."," ","R","e","s","t","a","r","t"," ","y","o","u","r"," ","p","h","o",
    "n","e",".","\n","3","."," ","C","h","e","c","k"," ","S","I","M",":"," ","o","p","e","n",
    " ","S","e","t","t","i","n","g","s"," ","U+2192"," ","N","e","t","w","o","r","k"," ","&",
    " ","S","I","M"," ","a","n","d"," ","e","n","s","u","r","e"," ","S","I","M"," ","i","s"," ",
    "e","n","a","b","l","e","d"," ","a","n","d"," ","n","o","t"," ","i","n"," ","a","i","r","p",
    "l","a","n","e"," ","m","o","d","e",".","\n","4","."," ","V","e","r","i","f","y"," ","s",
    "i","g","n","a","l"," ","b","a","r","s"," ","i","n"," ","t","h","e"," ","s","t","a","t","u",
    "s"," ","b","a","r"," ","a","n","d"," ","t","r","y"," ","m","o","v","i","n","g"," ","t","o",
    " ","a"," ","w","i","n","d","o","w"," ","o","r"," ","o","u","t","d","o","o","r","s"," ","b",
    "r","i","e","f","l","y",".","\n","5","."," ","I","f"," ","y","o","u"," ","s","e","e"," ",
    "'","N","o"," ","S","e","r","v","i","c","e","'"," ","o","r"," ","'","E","m","e","r","g","e",
    "n","c","y"," ","C","a","l","l","s"," ","o","n","l","y","'",","," ","c","h","e","c","k"," ",
    "i","f"," ","t","h","e"," ","S","I","M"," ","w","o","r","k","s"," ","i","n"," ","a","n","o",
    "t","h","e","r"," ","p","h","o","n","e",".","\n","6","."," ","C","h","e","c","k"," ","c",
    "a","l","l"," ","b","a","r","r","i","n","g"," ","/"," ","D","o"," ","N","o","t"," ","D","i",
    "s","t","u","r","b"," ","s","e","t","t","i","n","g","s"," ","a","n","d"," ","t","h","a","t",
    " ","y","o","u","r"," ","a","c","c","o","u","n","t"," ","i","s"," ","a","c","t","i","v","e",
    ".","\n","\n","D","e","v","i","c","e","-","s","p","e","c","i","f","i","c"," ","s","t","e",
    "p","s",":","\n","-"," ","F","o","r"," ","i","P","h","o","n","e",":"," ","S","e","t","t",
    "i","n","g","s"," ","U+2192"," ","C","e","l","l","u","l","a","r"," ","U+2192"," ","C","e",
    "l","l","u","l","a","r"," ","D","a","t","a"," ","O","p","t","i","o","n","s"," ","U+2192",
    " ","E","n","a","b","l","e"," ","V","o","L","T","E","/","V","o","i","c","e"," ","&"," ","D",
    "a","t","a"," ","i","f"," ","r","e","l","e","v","a","n","t",".","\n","-"," ","F","o","r",
    " ","A","n","d","r","o","i","d",":"," ","C","h","e","c","k"," ","M","o","b","i","l","e"," ",
    "N","e","t","w","o","r","k"," ","U+2192"," ","P","r","e","f","e","r","r","e","d"," ","N",
    "e","t","w","o","r","k"," ","T","y","p","e"," ","U+2192"," ","E","n","s","u","r","e"," ",
    "4","G","/","3","G"," ","i","s"," ","s","e","l","e","c","t","e","d",";"," ","c","h","e","c",
    "k"," ","A","P","N"," ","s","e","t","t","i","n","g","s"," ","i","f"," ","d","a","t","a"," ",
    "f","a","i","l","s",".","\n","\n","P","l","e","a","s","e"," ","p","r","o","v","i","d","e",
    " ","t","h","e"," ","f","o","l","l","o","w","i","n","g"," ","s","o"," ","I"," ","c","a","n",
    " ","i","n","v","e","s","t","i","g","a","t","e"," ","f","u","r","t","h","e","r",":","\n",
    "-"," ","E","x","a","c","t"," ","l","o","c","a","t","i","o","n"," ","(","e",".","g",".",",",
    " ","'","M","u","m","b","a","i"," ","W","e","s","t","'"," ","o","r"," ","f","u","l","l"," ",
    "n","e","i","g","h","b","o","r","h","o","o","d","/","a","d","d","r","e","s","s",")",".",
    "\n","-"," ","D","e","v","i","c","e"," ","m","o","d","e","l"," ","(","e",".","g",".",",",
    " ","i","P","h","o","n","e"," ","1","4",","," ","S","a","m","s","u","n","g"," ","G","a","l",
    "a","x","y"," ","S","2","2",")",".","\n","-"," ","W","h","a","t"," ","h","a","p","p","e",
    "n","s"," ","w","h","e","n"," ","y","o","u"," ","t","r","y"," ","t","o"," ","c","a","l","l",
    "?"," ","(","e","r","r","o","r"," ","m","e","s","s","a","g","e",","," ","c","a","l","l"," ",
    "d","r","o","p","s",","," ","b","u","s","y"," ","t","o","n","e",")",".","\n","-"," ","W",
    "h","e","n"," ","d","i","d"," ","t","h","e"," ","i","s","s","u","e"," ","s","t","a","r","t",
    "?"," ","H","a","s"," ","i","t"," ","h","a","p","p","e","n","e","d"," ","b","e","f","o","r",
    "e","?","\n","-"," ","A","r","e"," ","o","t","h","e","r"," ","u","s","e","r","s"," ","i",
    "n"," ","t","h","e"," ","s","a","m","e"," ","l","o","c","a","t","i","o","n"," ","a","f","f",
    "e","c","t","e","d","?","\n","\n","N","e","x","t"," ","s","t","e","p","s"," ","I"," ","c",
    "a","n"," ","t","a","k","e"," ","f","o","r"," ","y","o","u",":","\n","-"," ","C","h","e",
    "c","k"," ","n","e","t","w","o","r","k"," ","i","n","c","i","d","e","n","t"," ","r","e","p",
    "o","r","t","s"," ","f","o","r"," ","t","h","e"," ","e","x","a","c","t"," ","a","d","d","r",
    "e","s","s"," ","o","n","c","e"," ","y","o","u"," ","p","r","o","v","i","d","e"," ","i","t",
    ".","\n","-"," ","R","u","n"," ","a"," ","d","e","e","p","e","r"," ","d","i","a","g","n",
    "o","s","t","i","c","s"," ","f","l","o","w"," ","(","t","a","k","e","s"," ","a"," ","b","i",
    "t"," ","l","o","n","g","e","r",")"," ","t","o"," ","a","n","a","l","y","z","e"," ","S","I",
    "M","/","I","M","S","I","/","a","c","c","o","u","n","t"," ","s","t","a","t","u","s",".",
    "\n","-"," ","I","f"," ","n","e","e","d","e","d",","," ","e","s","c","a","l","a","t","e",
    " ","t","o"," ","f","i","e","l","d"," ","e","n","g","i","n","e","e","r","s"," ","f","o","r",
    " ","l","o","c","a","l"," ","s","i","g","n","a","l"," ","c","h","e","c","k","s",".">>

\* "\n".join(parts)
RECURSIVE join(_, _)
join(sep, parts) ==
  IF parts = <<>> THEN <<>>
  ELSE IF Len(parts) = 1 THEN parts[1]
  ELSE parts[1] \o sep \o join(sep, Tail(parts))

RECURSIVE matching_rows(_, _)
\* The rows  SELECT ... FROM network_status WHERE area LIKE '%location%'  yields
\* from a table: LIKE compares ASCII letters without regard to case.
matching_rows(table, location) ==
  IF table = <<>> THEN <<>>
  ELSE (IF Contains(lower(Head(table).area), lower(location)) THEN <<Head(table)>> ELSE <<>>)
         \o matching_rows(Tail(table), location)

\* f"Area: {area} \u2014 Status: {status}. {details} (updated: {updated_at})"
render_row(r) ==
  <<"A","r","e","a",":"," ">> \o r.area \o <<" ","U+2014"," ","S","t","a","t","u","s",":"," ">> \o r.status
    \o <<"."," ">> \o r.details \o <<" ","(","u","p","d","a","t","e","d",":"," ">> \o r.updated_at \o <<")">>

\* The except branch of check_network_status.
status_failure_message(e) ==
  LET msg == lower(e)
  IN  IF Contains(msg, <<"n","o"," ","s","u","c","h"," ","c","o","l","u","m","n">>) \/ Contains(msg, <<"o",
      "p","e","r","a","t","i","o","n","a","l","e","r","r","o","r">>)
         \/ Contains(msg, <<"n","o"," ","s","u","c","h"," ","t","a","b","l","e">>)
      THEN DB_MISMATCH_MSG
      ELSE DB_INTERNAL_ERROR_MSG

\* What check_network_status returns for the rows the query yielded:
\* f"No reported network incidents found in '{location}'." for none.
render_rows(rows, location) ==
  IF rows = <<>>
  THEN <<"N","o"," ","r","e","p","o","r","t","e","d"," ","n","e","t","w","o","r","k"," ","i",
      "n","c","i","d","e","n","t","s"," ","f","o","u","n","d"," ","i","n"," ","'">>
         \o location \o <<"'",".">>
  ELSE join(<<"\n">>, [i \in 1..Len(rows) |-> render_row(rows[i])])

\* db is the outcome of the database: the table it holds, or the exception it
\* raised, at get_database() ("open") or at the query ("query").
check_network_status(location, db) ==
  IF db.kind = "raise" /\ db.at = "open" THEN status_failure_message(db.text)
  ELSE IF ~truthy(location) THEN NO_LOCATION_PROVIDED_MSG
  ELSE IF db.kind = "raise" THEN status_failure_message(db.text)
  ELSE render_rows(matching_rows(db.table, location), location)

\* docs is the outcome of the document index: no index, an answer, or an exception
\* (f"Error searching docs: {e}").
search_troubleshooting_docs(query, docs) ==
  IF docs.kind = "noindex" THEN DOC_INDEX_UNAVAILABLE_MSG
  ELSE IF docs.kind = "return" THEN docs.text
  ELSE <<"E","r","r","o","r"," ","s","e","a","r","c","h","i","n","g"," ","d","o","c","s",":",
      " ">> \o docs.text

\* doc_query = f"{device} {query}" if device else query
doc_query_for(query, device) == IF truthy(device) THEN device \o <<" ">> \o query ELSE query

\* status = check_network_status(location) if location else None
status_of(location, db) ==
  IF truthy(location) THEN check_network_status(location, db) ELSE None

\* parts[0]: f"Network status check for '{location}':\n{status}", or the note
\* that the lookup is skipped.
status_part(location, status) ==
  IF truthy(location)
  THEN <<"N","e","t","w","o","r","k"," ","s","t","a","t","u","s"," ","c","h","e","c","k"," ",
      "f","o","r"," ","'">>
         \o location \o <<"'",":","\n">> \o status
  ELSE SKIPPING_LOOKUP_MSG

\* "\n\n".join(parts), with parts[1] = f"Troubleshooting suggestions:\n{docs_result}"
combined_text(location, status, docs_result) ==
  join(<<"\n", "\n">>,
       <<status_part(location, status),
         <<"T","r","o","u","b","l","e","s","h","o","o","t","i","n","g"," ","s","u","g","g","e",
             "s","t","i","o","n","s",":","\n">>
           \o docs_result>>)

\* bool(docs_result and not docs_result.startswith("Error") and len(docs_result) > 50)
docs_actionable(docs_result) ==
  truthy(docs_result) /\ ~MatchAt(docs_result, <<"E","r","r","o","r">>, 1) /\ Len(docs_result) > 50

\* A faulty variant of outage_reported: no status counts as an outage.
outage_reported_never(status) == FALSE

\* bool(status and "no reported network incidents" not in status.lower())
outage_reported(status) ==
  /\ truthy(status)
  /\ ~Contains(lower(status),
               <<"n","o"," ","r","e","p","o","r","t","e","d"," ","n","e","t","w","o","r","k",
                   " ","i","n","c","i","d","e","n","t","s">>)

\* A faulty variant of diagnosis: the checklist is appended only when no
\* location was found.
diagnosis_checklist_without_location(location, status, docs_result) ==
  IF outage_reported(status) \/ docs_actionable(docs_result) \/ truthy(location)
  THEN combined_text(location, status, docs_result)
  ELSE combined_text(location, status, docs_result) \o <<"\n", "\n">> \o CHECKLIST

\* The answer: the checklist is appended unless an outage is reported or the
\* documents help.
diagnosis(location, status, docs_result) ==
  IF outage_reported(status) \/ docs_actionable(docs_result)
  THEN combined_text(location, status, docs_result)
  ELSE combined_text(location, status, docs_result) \o <<"\n", "\n">> \o CHECKLIST

\* process_network_query once the extractor found [location, device].
network_answer(query, found, db, docs) ==
  diagnosis(found.location, status_of(found.location, db),
            search_troubleshooting_docs(doc_query_for(query, found.device), docs))

\* process_network_query: db and docs are the outcomes of its two collaborators.
\* It returns a text; nothing in it raises.
process_network_query(query, db, docs) ==
  network_answer(query, extract_location_and_device(query), db, docs)

\* A faulty variant of network_calls_for: the status lookup is called whether
\* or not a location was found.
network_calls_for_always_lookup(query, found, db, docs) ==
  <<Call("check_network_status", or_empty(found.location), db),
    Call("search_troubleshooting_docs", doc_query_for(query, found.device), docs)>>

\* The external calls of process_network_query once the extractor found
\* [location, device], in order.
network_calls_for(query, found, db, docs) ==
  (IF truthy(found.location) THEN <<Call("check_network_status", found.location, db)>> ELSE <<>>)
    \o <<Call("search_troubleshooting_docs", doc_query_for(query, found.device), docs)>>

\* The external calls process_network_query makes, in order.
network_calls(query, db, docs) ==
  network_calls_for(query, extract_location_and_device(query), db, docs)

\* autogen_node: net is the pair of outcomes [db, docs] of the diagnosis.
autogen_node(state, net) ==
  NodeReturn([response |-> handler_response(<<"E","r","r","o","r"," ","i","n"," ","N","e","t",
      "w","o","r","k"," ","A","g","e","n","t",":"," ">>,
                                             Returns(process_network_query(state.query, net.db, net.docs)))],
             network_calls(state.query, net.db, net.docs))

(***************************************************************************)
(* multi_node                                                              *)
(***************************************************************************)

ERR_PREFIX == <<"E","r","r","o","r",":"," ">>

SECTION_SEPARATOR == <<"\n","-","-","-","\n">>

TAG_BILLING == <<"B","i","l","l","i","n","g">>

TAG_NETWORK == <<"N","e","t","w","o","r","k">>

TAG_SERVICE == <<"S","e","r","v","i","c","e">>

TAG_KNOWLEDGE == <<"K","n","o","w","l","e","d","g","e">>

ATTRIBUTE_ERROR ==
  <<"'","N","o","n","e","T","y","p","e","'"," ","o","b","j","e","c","t"," ","h","a","s"," ","n",
    "o"," ","a","t","t","r","i","b","u","t","e"," ","'","l","o","w","e","r","'">>

\* The keyword tests of multi_node's four branches.
\* The test of the network branch for a result that is an error text.
looks_like_error(resp_text) ==
  LET l == lower(resp_text)
  IN  \/ MatchAt(l, <<"e","r","r","o","r">>, 1)
      \/ Contains(l, <<"o","p","e","r","a","t","i","o","n","a","l","e","r","r","o","r">>)
      \/ Contains(l, <<"n","o"," ","s","u","c","h"," ","c","o","l","u","m","n">>)

\* What one branch of multi_node contributes: the entries it appends to
\* responses and the external calls it makes.
no_branch == [responses |-> <<>>, calls |-> <<>>]

\* A branch around the node's result r: (tag, r.get("response", "")), and
\* (tag, f"Error: {e}") for a node that raised.
branch(tag, r) ==
  [responses |-> <<[tag |-> tag,
                    text |-> IF r.raised THEN ERR_PREFIX \o r.error ELSE r.update.response]>>,
   calls |-> r.calls]

\* The network branch around the node's result r: the node's answer, or the
\* answer of a second, direct call of process_network_query when the first
\* looks like an error.
network_branch(query, r, retry) ==
  IF r.raised \/ ~looks_like_error(r.update.response) THEN branch(TAG_NETWORK, r)
  ELSE [responses |-> <<[tag |-> TAG_NETWORK,
                         text |-> process_network_query(query, retry.db, retry.docs)]>>,
        calls |-> r.calls \o network_calls(query, retry.db, retry.docs)]

\* f"### {tag} Response\n{text}\n"
render_section(entry) ==
  <<"#","#","#"," ">> \o entry.tag \o <<" ","R","e","s","p","o","n","s","e","\n">>
    \o entry.text \o <<"\n">>

\* A faulty variant of multi_branches: the service branch runs on every query.
multi_branches_service_always(state, q_lower, env) ==
  << IF any_in(billing_terms, q_lower)
     THEN branch(TAG_BILLING,
                 crew_ai_node([query |-> state.query, customer_id |-> state.customer_id],
                              env.billing))
     ELSE no_branch,
     IF any_in(network_terms, q_lower)
     THEN network_branch(state.query, autogen_node([query |-> state.query], env.network),
                         env.network_retry)
     ELSE no_branch,
     branch(TAG_SERVICE, langchain_node([query |-> state.query], env.service)),
     IF any_in(knowledge_terms, q_lower)
     THEN branch(TAG_KNOWLEDGE, llamaindex_node([query |-> state.query], env.knowledge))
     ELSE no_branch >>

\* The four branches in the order multi_node runs them.
multi_branches(state, q_lower, env) ==
  << IF any_in(billing_terms, q_lower)
     THEN branch(TAG_BILLING,
                 crew_ai_node([query |-> state.query, customer_id |-> state.customer_id],
                              env.billing))
     ELSE no_branch,
     IF any_in(network_terms, q_lower)
     THEN network_branch(state.query, autogen_node([query |-> state.query], env.network),
                         env.network_retry)
     ELSE no_branch,
     IF any_in(service_terms, q_lower)
     THEN branch(TAG_SERVICE, langchain_node([query |-> state.query], env.service))
     ELSE no_branch,
     IF any_in(knowledge_terms, q_lower)
     THEN branch(TAG_KNOWLEDGE, llamaindex_node([query |-> state.query], env.knowledge))
     ELSE no_branch >>

\* A faulty variant of multi_reclassified: the fallback message is the
\* response whatever the label.
multi_reclassified_always_fallback(state, classified) ==
  IF classified.raised THEN classified
  ELSE NodeReturn(fallback_handler([query |-> state.query]).update, classified.calls)

\* if not responses: the classifier runs again and its label decides.
multi_reclassified(state, classified) ==
  IF classified.raised THEN classified
  ELSE IF classified.update.category = "OTHER"
  THEN NodeReturn(fallback_handler([query |-> state.query]).update, classified.calls)
  ELSE NodeReturn([response |-> <<>>], classified.calls)

\* "\n---\n".join(combined)
combine_sections(responses) ==
  join(SECTION_SEPARATOR, [i \in 1..Len(responses) |-> render_section(responses[i])])

\* multi_node once the branches collected responses and made calls.
multi_combined(state, env, responses, calls) ==
  IF responses = <<>> THEN multi_reclassified(state, classify_query(state, env.llm))
  ELSE [NodeReturn([response |-> combine_sections(responses)], calls)
          EXCEPT !.responses = responses]

\* A faulty variant of multi_collected: the network section comes first.
multi_collected_network_first(state, env, bs) ==
  multi_combined(state, env,
                 bs[2].responses \o bs[1].responses \o bs[3].responses \o bs[4].responses,
                 bs[2].calls \o bs[1].calls \o bs[3].calls \o bs[4].calls)

multi_collected(state, env, bs) ==
  multi_combined(state, env,
                 bs[1].responses \o bs[2].responses \o bs[3].responses \o bs[4].responses,
                 bs[1].calls \o bs[2].calls \o bs[3].calls \o bs[4].calls)

\* env holds the outcome of every collaborator multi_node may call: billing,
\* network and network_retry (each [db, docs]), service, knowledge, and llm for
\* the classifier it runs again when no branch ran.
multi_node(state, env) ==
  IF state.query = None THEN NodeRaise(ATTRIBUTE_ERROR, <<>>)
  ELSE multi_collected(state, env, multi_branches(state, lower(state.query), env))

(***************************************************************************)
(* The inputs: queries, customers and the outcomes of the collaborators    *)
(***************************************************************************)

\* The most words a generated query has.
MaxWords == 2

\* The most characters a generated text has.
MaxLen == 3

\* The words generated queries are made of: Bill, slow, plan, setup (one term of
\* each group), joke, and Mumbai, which is no keyword.
Vocabulary == {<<"B","i","l","l">>, <<"s","l","o","w">>, <<"p","l","a","n">>, <<"s","e","t",
    "u","p">>, <<"j","o","k","e">>, <<"M","u","m","b","a","i">>}

\* "I need help with both my bill and network issues"
SAMPLE_MULTI ==
  <<"I"," ","n","e","e","d"," ","h","e","l","p"," ","w","i","t","h"," ","b","o","t","h"," ","m",
    "y"," ","b","i","l","l"," ","a","n","d"," ","n","e","t","w","o","r","k"," ","i","s","s","u",
    "e","s">>

\* The (typ, q) pairs of run_samples: the category a query is labelled with
\* and the query.
samples ==
  <<
     [typ |-> "BILLING",
      q |-> <<"W","h","y"," ","d","i","d"," ","m","y"," ","b","i","l","l"," ","i","n","c","r",
               "e","a","s","e"," ","b","y"," ","2","0","0"," ","t","h","i","s"," ","m","o","n",
               "t","h","?">>],
     [typ |-> "BILLING",
      q |-> <<"I"," ","s","e","e"," ","a"," ","c","h","a","r","g","e"," ","f","o","r"," ","i",
               "n","t","e","r","n","a","t","i","o","n","a","l"," ","r","o","a","m","i","n","g",
               " ","b","u","t"," ","I"," ","h","a","v","e","n","U+2019","t"," ","t","r","a","v",
               "e","l","e","d"," ","r","e","c","e","n","t","l","y">>],
     [typ |-> "BILLING",
      q |-> <<"C","a","n"," ","y","o","u"," ","e","x","p","l","a","i","n"," ","t","h","e"," ",
               "U+2018","V","a","l","u","e"," ","A","d","d","e","d"," ","S","e","r","v","i","c",
               "e","s","U+2019"," ","c","h","a","r","g","e"," ","o","n"," ","m","y"," ","b","i",
               "l","l","?">>],
     [typ |-> "BILLING",
      q |-> <<"W","h","a","t","U+2019","s"," ","t","h","e"," ","e","a","r","l","y"," ","t","e",
               "r","m","i","n","a","t","i","o","n"," ","f","e","e"," ","i","f"," ","I"," ","c",
               "a","n","c","e","l"," ","m","y"," ","c","o","n","t","r","a","c","t","?">>],
     [typ |-> "NETWORK",
      q |-> <<"I"," ","c","a","n","U+2019","t"," ","m","a","k","e"," ","c","a","l","l","s"," ",
               "f","r","o","m"," ","m","y"," ","h","o","m","e"," ","i","n"," ","M","u","m","b",
               "a","i"," ","W","e","s","t">>],
     [typ |-> "NETWORK",
      q |-> <<"M","y"," ","d","a","t","a"," ","c","o","n","n","e","c","t","i","o","n"," ","k",
               "e","e","p","s"," ","d","r","o","p","p","i","n","g"," ","w","h","e","n"," ","I",
               "U+2019","m"," ","o","n"," ","t","h","e"," ","t","r","a","i","n">>],
     [typ |-> "NETWORK",
      q |-> <<"W","h","y"," ","i","s"," ","m","y"," ","5","G"," ","c","o","n","n","e","c","t",
               "i","o","n"," ","s","l","o","w","e","r"," ","t","h","a","n"," ","m","y"," ","f",
               "r","i","e","n","d","U+2019","s","?">>],
     [typ |-> "NETWORK",
      q |-> <<"I"," ","g","e","t"," ","a"," ","U+2018","N","o"," ","S","e","r","v","i","c","e",
               "U+2019"," ","e","r","r","o","r"," ","i","n"," ","m","y"," ","b","a","s","e","m",
               "e","n","t"," ","a","p","a","r","t","m","e","n","t">>],
     [typ |-> "SERVICE",
      q |-> <<"W","h","a","t","U+2019","s"," ","t","h","e"," ","b","e","s","t"," ","p","l","a",
               "n"," ","f","o","r"," ","a"," ","f","a","m","i","l","y"," ","o","f"," ","f","o",
               "u","r"," ","w","h","o"," ","w","a","t","c","h","e","s"," ","a"," ","l","o","t",
               " ","o","f"," ","v","i","d","e","o","s","?">>],
     [typ |-> "SERVICE",
      q |-> <<"I"," ","n","e","e","d"," ","a"," ","p","l","a","n"," ","w","i","t","h"," ","g",
               "o","o","d"," ","i","n","t","e","r","n","a","t","i","o","n","a","l"," ","c","a",
               "l","l","i","n","g"," ","t","o"," ","t","h","e"," ","U","S">>],
     [typ |-> "SERVICE",
      q |-> <<"W","h","i","c","h"," ","p","l","a","n"," ","i","s"," ","b","e","s","t"," ","f",
               "o","r"," ","s","o","m","e","o","n","e"," ","w","h","o"," ","w","o","r","k","s",
               " ","f","r","o","m"," ","h","o","m","e"," ","a","n","d"," ","n","e","e","d","s",
               " ","r","e","l","i","a","b","l","e"," ","d","a","t","a","?">>],
     [typ |-> "SERVICE",
      q |-> <<"I","U+2019","m"," ","a"," ","l","i","g","h","t"," ","u","s","e","r"," ","w","h",
               "o"," ","m","o","s","t","l","y"," ","j","u","s","t"," ","c","a","l","l","s"," ",
               "a","n","d"," ","t","e","x","t","s","."," ","W","h","a","t","U+2019","s"," ","m",
               "y"," ","c","h","e","a","p","e","s","t"," ","o","p","t","i","o","n","?">>],
     [typ |-> "KNOWLEDGE",
      q |-> <<"H","o","w"," ","d","o"," ","I"," ","s","e","t"," ","u","p"," ","V","o","L","T",
               "E"," ","o","n"," ","m","y"," ","S","a","m","s","u","n","g"," ","p","h","o","n",
               "e","?">>],
     [typ |-> "KNOWLEDGE",
      q |-> <<"W","h","a","t"," ","a","r","e"," ","t","h","e"," ","A","P","N"," ","s","e","t",
               "t","i","n","g","s"," ","f","o","r"," ","A","n","d","r","o","i","d"," ","d","e",
               "v","i","c","e","s","?">>],
     [typ |-> "KNOWLEDGE",
      q |-> <<"H","o","w"," ","c","a","n"," ","I"," ","a","c","t","i","v","a","t","e"," ","i",
               "n","t","e","r","n","a","t","i","o","n","a","l"," ","r","o","a","m","i","n","g",
               " ","b","e","f","o","r","e"," ","t","r","a","v","e","l","i","n","g","?">>],
     [typ |-> "KNOWLEDGE",
      q |-> <<"W","h","a","t"," ","a","r","e","a","s"," ","i","n"," ","D","e","l","h","i"," ",
               "h","a","v","e"," ","5","G"," ","c","o","v","e","r","a","g","e","?">>],
     [typ |-> "JOKE",
      q |-> <<"T","e","l","l"," ","m","e"," ","a"," ","j","o","k","e"," ","a","b","o","u","t",
               " ","t","e","l","e","c","o","m">>],
     [typ |-> "MULTI",
      q |-> <<"I"," ","n","e","e","d"," ","h","e","l","p"," ","w","i","t","h"," ","b","o","t",
               "h"," ","m","y"," ","b","i","l","l"," ","a","n","d"," ","n","e","t","w","o","r",
               "k"," ","i","s","s","u","e","s">>],
     [typ |-> "EMPTY",
      q |-> <<>>]
  >>

\* The queries: a missing one, the queries of run_samples, a query that
\* names all four topics and a device, queries that name a place, one with
\* whitespace around two keywords, one of whitespace only, and every query of
\* at most MaxWords words of the vocabulary, joined by single spaces.
Queries ==
  {None}
    \cup {samples[i].q : i \in 1..Len(samples)}
    \cup {<<"H","o","w"," ","t","o"," ","u","p","g","r","a","d","e"," ","m","y"," ","p","l",
             "a","n",","," ","p","a","y"," ","t","h","e"," ","b","i","l","l"," ","a","n","d",
             " ","f","i","x"," ","t","h","e"," ","s","l","o","w"," ","i","P","h","o","n","e",
             " ","1","4","?">>,
          <<"N","o"," ","s","i","g","n","a","l"," ","i","n"," ","M","u","m","b","a","i"," ",
             "W","e","s","t",","," ","a","n","d"," ","a"," ","w","r","o","n","g"," ","c","h",
             "a","r","g","e",".">>,
          <<"O","u","t","a","g","e"," ","a","t"," "," ","m","y"," ","h","o","m","e"," ","i",
             "n"," ","M","u","m","b","a","i","?">>,
          <<" ","B","i","l","l"," ","p","l","a","n","\n">>,
          <<" ","\t","\n">>}
    \cup {join(<<" ">>, ws) : ws \in UNION {[1..k -> Vocabulary] : k \in 0..MaxWords}}

\* What the classification inference call may do: return "Billing",
\* " network\n", "SERVICE", "Category: KNOWLEDGE" or "I am not sure.", or raise
\* "Connection error.".
LLMOutcomes ==
  {Returns(<<"B","i","l","l","i","n","g">>), Returns(<<" ","n","e","t","w","o","r","k","\n">>), Returns(<<"S",
      "E","R","V","I","C","E">>), Returns(<<"C","a","t","e","g","o","r","y",":"," ","K","N",
      "O","W","L","E","D","G","E">>),
   Returns(<<"I"," ","a","m"," ","n","o","t"," ","s","u","r","e",".">>), Raises(<<"C","o","n",
       "n","e","c","t","i","o","n"," ","e","r","r","o","r",".">>)}

\* What the joke inference call may do: return a joke, return the joke
\* "Bars | none: my phone's whole story.", return " \n", or raise
\* "Connection error.".
JokeOutcomes ==
  {Returns(<<"W","h","y"," ","d","i","d"," ","t","h","e"," ","r","o","u","t","e","r"," ","b",
             "r","e","a","k"," ","u","p","?"," ","L","o","s","t"," ","c","o","n","n","e","c",
             "t","i","o","n",".">>),
   Returns(<<"B","a","r","s"," ","|"," ","n","o","n","e",":"," ","m","y"," ","p","h","o","n",
             "e","'","s"," ","w","h","o","l","e"," ","s","t","o","r","y",".">>),
   Returns(<<" ","\n">>),
   Raises(<<"C","o","n","n","e","c","t","i","o","n"," ","e","r","r","o","r",".">>)}

\* What a domain handler (billing, service, knowledge) may do: return
\* "## Usage\n**12 GB** of [data](http://x) | ok", return "", or raise
\* "database is locked".
HandlerOutcomes == {Returns(<<"#","#"," ","U","s","a","g","e","\n","*","*","1","2"," ","G","B",
    "*","*"," ","o","f"," ","[","d","a","t","a","]","(","h","t","t","p",":","/","/","x",")",
    " ","|"," ","o","k">>), Returns(<<>>), Raises(<<"d","a","t","a","b","a","s","e"," ","i",
    "s"," ","l","o","c","k","e","d">>)}

\* The incident seed_db stores.
SEEDED_ROW == [area |-> <<"M","u","m","b","a","i"," ","W","e","s","t">>, status |-> <<"O","u",
    "t","a","g","e">>, updated_at |-> <<"2","0","2","5","-","1","2","-","0","1">>, details |-> <<"L",
    "o","c","a","l","i","z","e","d"," ","a","n","t","e","n","n","a"," ","m","a","i","n","t",
    "e","n","a","n","c","e"," ","a","f","f","e","c","t","i","n","g"," ","v","o","i","c","e",
    " ","c","a","l","l","s">>]

\* What the status database may do: the query returns no row or the seeded
\* row, the query raises "(sqlite3.OperationalError) no such table:
\* network_status" or "(sqlite3.OperationalError) database is locked", or
\* get_database raises "unable to open database file".
DbOutcomes ==
  {[kind |-> "return", text |-> <<>>, at |-> "query", table |-> <<>>],
   [kind |-> "return", text |-> <<>>, at |-> "query", table |-> <<SEEDED_ROW>>],
   [kind |-> "raise", at |-> "query", table |-> <<>>,
    text |-> <<"(","s","q","l","i","t","e","3",".","O","p","e","r","a","t","i","o","n","a","l",
        "E","r","r","o","r",")"," ","n","o"," ","s","u","c","h"," ","t","a","b","l","e",":",
        " ","n","e","t","w","o","r","k","_","s","t","a","t","u","s">>],
   [kind |-> "raise", at |-> "query", table |-> <<>>,
    text |-> <<"(","s","q","l","i","t","e","3",".","O","p","e","r","a","t","i","o","n","a","l",
        "E","r","r","o","r",")"," ","d","a","t","a","b","a","s","e"," ","i","s"," ","l","o",
        "c","k","e","d">>],
   [kind |-> "raise", at |-> "open", table |-> <<>>,
    text |-> <<"u","n","a","b","l","e"," ","t","o"," ","o","p","e","n"," ","d","a","t","a","b",
        "a","s","e"," ","f","i","l","e">>]}

DbNotCalled == [kind |-> "none", text |-> <<>>, at |-> "none", table |-> <<>>]

\* What the document index may do.
DocsOutcomes ==
  {Returns(<<"O","p","e","n"," ","S","e","t","t","i","n","g","s",","," ","r","e","s","e","t",
      " ","t","h","e"," ","n","e","t","w","o","r","k"," ","s","e","t","t","i","n","g","s",",",
      " ","t","h","e","n"," ","r","e","s","t","a","r","t"," ","t","h","e"," ","p","h","o","n",
      "e",".">>), Returns(<<"N","o"," ","r","e","l","e","v","a","n","t"," ","d","o","c","u",
      "m","e","n","t",".">>), Returns(<<>>), [kind |-> "noindex", text |-> <<>>], Raises(<<"n",
          "o"," ","s",
      "u","c","h"," ","c","o","l","u","m","n",":"," ","b","o","d","y">>)}

\* The outcomes a call site draws from: S when the call is made, else the one
\* value that stands for no call.
OutcomesIf(called, S, none) == IF called THEN S ELSE {none}

\* The outcomes of one run of process_network_query on the query.
NetworkOutcomes(query) ==
  {[db |-> db, docs |-> docs] :
     db \in OutcomesIf(truthy(extract_location_and_device(query).location), DbOutcomes, DbNotCalled),
     docs \in DocsOutcomes}


(***************************************************************************)
(* The graph: run_orchestrator hands the request to classify_query, the    *)
(* conditional edge route_query picks one node, and every node leads to    *)
(* END, where run_orchestrator returns result["response"].                 *)
(***************************************************************************)

VARIABLES
  pc,        \* where the request is: "START", "CLASSIFIED", the node that ran, "DONE", "RAISED"
  state,     \* the graph's state dict
  calls,     \* the external calls made so far, in order
  trace,     \* the values pc has had, in order
  branches,  \* the (tag, text) list multi_node collected
  result,    \* what run_orchestrator returned
  error      \* the message of the exception that escaped run_orchestrator

vars == <<pc, state, calls, trace, branches, result, error>>

HandlerNodes ==
  {"empty_input_handler", "joke_node", "multi_node", "crew_ai_node", "autogen_node",
   "langchain_node", "llamaindex_node", "fallback_handler"}

\* inputs = {"query": query, "customer_id": customer_id, "history": []}; "<unset>"
\* is the value of a key the state dict does not hold yet.
run_orchestrator_inputs(query, customer_id) ==
  [query |-> query, customer_id |-> customer_id, history |-> <<>>,
   category |-> "<unset>", response |-> None]

\* The graph merges the dict a node returns into the state.
Merge(old, update) ==
  [k \in DOMAIN old |-> IF k \in DOMAIN update THEN update[k] ELSE old[k]]

Init ==
  /\ pc = "START"
  /\ \E query \in Queries, customer_id \in {"CUST001"} :
       state = run_orchestrator_inputs(query, customer_id)
  /\ calls = <<>>
  /\ trace = <<"START">>
  /\ branches = <<>>
  /\ result = None
  /\ error = None

\* A node ran with result r: its update is merged and the request is at next,
\* or its exception escapes app.invoke and run_orchestrator.
Apply(r, next) ==
  /\ calls' = calls \o r.calls
  /\ branches' = r.responses
  /\ result' = result
  /\ IF r.raised
     THEN /\ pc' = "RAISED"
          /\ error' = r.error
          /\ state' = state
          /\ trace' = Append(trace, "RAISED")
     ELSE /\ pc' = next
          /\ error' = error
          /\ state' = Merge(state, r.update)
          /\ trace' = Append(trace, next)

ClassifyQuery ==
  /\ pc = "START"
  /\ \E llm \in OutcomesIf(~heuristics_decide(state), LLMOutcomes, NotCalled) :
       Apply(classify_query(state, llm), "CLASSIFIED")

EmptyInputHandler ==
  /\ pc = "CLASSIFIED"
  /\ route_query(state) = "empty_input_handler"
  /\ Apply(empty_input_handler(state), "empty_input_handler")

JokeNode ==
  /\ pc = "CLASSIFIED"
  /\ route_query(state) = "joke_node"
  /\ \E llm \in JokeOutcomes, pick \in 1..Len(fallback_jokes) :
       Apply(joke_node(state, llm, pick), "joke_node")

\* The outcomes of the second, direct run of process_network_query in
\* multi_node's network branch, after the first run had the outcome n.
RetryOutcomes(query, q_lower, n) ==
  OutcomesIf(any_in(network_terms, q_lower)
               /\ looks_like_error(autogen_node([query |-> query], n).update.response),
             NetworkOutcomes(query), [db |-> DbNotCalled, docs |-> NotCalled])

MultiEnvsFor(st, q_lower) ==
  UNION {
    {[billing |-> b, network |-> n, network_retry |-> n2, service |-> s, knowledge |-> k, llm |-> l] :
       b \in OutcomesIf(any_in(billing_terms, q_lower), HandlerOutcomes, NotCalled),
       n2 \in RetryOutcomes(st.query, q_lower, n),
       s \in OutcomesIf(any_in(service_terms, q_lower), HandlerOutcomes, NotCalled),
       k \in OutcomesIf(any_in(knowledge_terms, q_lower), HandlerOutcomes, NotCalled),
       l \in OutcomesIf(~(any_in(billing_terms, q_lower) \/ any_in(network_terms, q_lower)
                           \/ any_in(service_terms, q_lower) \/ any_in(knowledge_terms, q_lower))
                           /\ ~heuristics_decide(st),
                         LLMOutcomes, NotCalled)} :
    n \in OutcomesIf(any_in(network_terms, q_lower), NetworkOutcomes(st.query), [db |-> DbNotCalled, docs |-> NotCalled])}

\* The outcomes multi_node's collaborators may have on the query: a call site
\* that is not reached draws the value that stands for no call.
MultiEnvs(st) == MultiEnvsFor(st, lower(or_empty(st.query)))

MultiNode ==
  /\ pc = "CLASSIFIED"
  /\ route_query(state) = "multi_node"
  /\ \E env \in MultiEnvs(state) : Apply(multi_node(state, env), "multi_node")

CrewAiNode ==
  /\ pc = "CLASSIFIED"
  /\ route_query(state) = "crew_ai_node"
  /\ \E outcome \in HandlerOutcomes : Apply(crew_ai_node(state, outcome), "crew_ai_node")

AutogenNode ==
  /\ pc = "CLASSIFIED"
  /\ route_query(state) = "autogen_node"
  /\ \E net \in NetworkOutcomes(state.query) : Apply(autogen_node(state, net), "autogen_node")

LangchainNode ==
  /\ pc = "CLASSIFIED"
  /\ route_query(state) = "langchain_node"
  /\ \E outcome \in HandlerOutcomes : Apply(langchain_node(state, outcome), "langchain_node")

LlamaindexNode ==
  /\ pc = "CLASSIFIED"
  /\ route_query(state) = "llamaindex_node"
  /\ \E outcome \in HandlerOutcomes : Apply(llamaindex_node(state, outcome), "llamaindex_node")

FallbackHandler ==
  /\ pc = "CLASSIFIED"
  /\ route_query(state) = "fallback_handler"
  /\ Apply(fallback_handler(state), "fallback_handler")

\* A faulty variant of ReturnResponse: the node leads back to the router.
ReturnResponse_to_router ==
  /\ pc \in HandlerNodes
  /\ pc' = "CLASSIFIED"
  /\ trace' = Append(trace, "CLASSIFIED")
  /\ UNCHANGED <<state, calls, branches, result, error>>

\* The edge from the node to END: run_orchestrator returns result["response"].
ReturnResponse ==
  /\ pc \in HandlerNodes
  /\ pc' = "DONE"
  /\ result' = state.response
  /\ trace' = Append(trace, "DONE")
  /\ UNCHANGED <<state, calls, branches, error>>

Next ==
  \/ ClassifyQuery
  \/ EmptyInputHandler
  \/ JokeNode
  \/ MultiNode
  \/ CrewAiNode
  \/ AutogenNode
  \/ LangchainNode
  \/ LlamaindexNode
  \/ FallbackHandler
  \/ ReturnResponse

Spec == Init /\ [][Next]_vars

(***************************************************************************)
(* The router and the nodes taken on their own: route_query is handed a    *)
(* state whose category is any label, those the classifier assigns and     *)
(* others, and the node it names runs.                                     *)
(***************************************************************************)

InitRoute ==
  /\ pc = "CLASSIFIED"
  /\ \E query \in {SAMPLE_MULTI, <<"M","u","m","b","a","i">>, <<"B","i","l","l">>, <<>>},
        category \in {"EMPTY", "JOKE", "MULTI", "BILLING", "NETWORK", "SERVICE", "KNOWLEDGE",
                      "OTHER", "UNKNOWN", "billing", ""} :
       state = [run_orchestrator_inputs(query, "CUST001") EXCEPT !.category = category]
  /\ calls = <<>>
  /\ trace = <<"START", "CLASSIFIED">>
  /\ branches = <<>>
  /\ result = None
  /\ error = None

NextRoute ==
  \/ EmptyInputHandler
  \/ JokeNode
  \/ MultiNode
  \/ CrewAiNode
  \/ AutogenNode
  \/ LangchainNode
  \/ LlamaindexNode
  \/ FallbackHandler
  \/ ReturnResponse

SpecRoute == InitRoute /\ [][NextRoute]_vars

(***************************************************************************)
(* _sanitize_response and process_network_query taken on their own: the    *)
(* input is drawn, and the function is applied to it; _sanitize_response   *)
(* is applied a second time to its own output.                             *)
(***************************************************************************)

\* The texts are those of at most MaxLen characters out of a heading marker, a
\* pipe, an emphasis marker, a letter, a space and a newline, and
\* "####### Plans", "**_a_** and __*b*__", "[[a](b)](c)", "a\n\n\n\nb".
InitFunctions ==
  /\ \/ /\ pc = "sanitize"
        /\ \E text \in UNION {[1..n -> {"#", "|", "*", "a", " ", "\n"}] : n \in 0..MaxLen}
                      \cup {<<"#","#","#","#","#","#","#"," ","P","l","a","n","s">>,
                            <<"*","*","_","a","_","*","*"," ","a","n","d"," ","_","_","*","b",
                              "*","_","_">>,
                            <<"[","[","a","]","(","b",")","]","(","c",")">>,
                            <<"a","\n","\n","\n","\n","b">>} :
             state = [text |-> text]
     \/ /\ pc = "process_network_query"
        /\ \E query \in Queries \ {None} :
             \E net \in NetworkOutcomes(query) :
               state = [query |-> query, db |-> net.db, docs |-> net.docs]
  /\ calls = <<>>
  /\ trace = <<>>
  /\ branches = <<>>
  /\ result = None
  /\ error = None

\* trace keeps the outputs, in order.
SanitizeResponse ==
  /\ pc \in {"sanitize", "sanitized"}
  /\ result' = sanitize_response(IF pc = "sanitize" THEN state.text ELSE result)
  /\ trace' = Append(trace, result')
  /\ pc' = IF pc = "sanitize" THEN "sanitized" ELSE "sanitized_again"
  /\ UNCHANGED <<state, calls, branches, error>>

ProcessNetworkQuery ==
  /\ pc = "process_network_query"
  /\ result' = process_network_query(state.query, state.db, state.docs)
  /\ calls' = network_calls(state.query, state.db, state.docs)
  /\ pc' = "diagnosed"
  /\ UNCHANGED <<state, trace, branches, error>>

NextFunctions ==
  \/ SanitizeResponse
  \/ ProcessNetworkQuery

SpecFunctions == InitFunctions /\ [][NextFunctions]_vars

(***************************************************************************)
(* Properties                                                              *)
(***************************************************************************)

\* C1: run_orchestrator returns a text and never raises, whatever the query
\* and whatever the collaborators do.
C1_ReturnsTextNeverRaises ==
  /\ pc # "RAISED"
  /\ pc = "DONE" => result # None

\* C2: classify never fails: when no heuristic decides and the classification
\* call raises, the category is OTHER and no error propagates.
C2_ClassifyFallsBackToOther ==
  \A k \in 1..Len(calls) :
    (calls[k].fn = "classify_llm" /\ calls[k].kind = "raise")
      => (pc # "RAISED" /\ state.category = "OTHER")

\* C3, as stated: for every query, two or more matching keyword groups give
\* MULTI and exactly one matching group gives that group's category.
C3_GroupCountFixesCategory ==
  (pc \notin {"START", "RAISED"}) =>
    LET q == lower(or_empty(state.query))
        matched == {g \in {"BILLING", "NETWORK", "SERVICE", "KNOWLEDGE"} :
                      any_in(CASE g = "BILLING" -> billing_terms
                               [] g = "NETWORK" -> network_terms
                               [] g = "SERVICE" -> service_terms
                               [] g = "KNOWLEDGE" -> knowledge_terms, q)}
    IN  /\ Cardinality(matched) >= 2 => state.category = "MULTI"
        /\ Cardinality(matched) = 1 => state.category \in matched

\* C3, amended: for every query without a joke keyword, two or more matching
\* keyword groups give MULTI and exactly one matching group gives that
\* group's category.
C3_GroupCountFixesCategoryUnlessJoke ==
  (pc \notin {"START", "RAISED"} /\ ~any_in(joke_kw, lower(or_empty(state.query)))) =>
    LET q == lower(or_empty(state.query))
        matched == {g \in {"BILLING", "NETWORK", "SERVICE", "KNOWLEDGE"} :
                      any_in(CASE g = "BILLING" -> billing_terms
                               [] g = "NETWORK" -> network_terms
                               [] g = "SERVICE" -> service_terms
                               [] g = "KNOWLEDGE" -> knowledge_terms, q)}
    IN  /\ Cardinality(matched) >= 2 => state.category = "MULTI"
        /\ Cardinality(matched) = 1 => state.category \in matched

\* A query of two groups is classified MULTI and a query of one group gets
\* the group's category.
C3_Witness ==
  /\ pc = "CLASSIFIED"
  /\ \/ state.query = SAMPLE_MULTI /\ state.category = "MULTI"
     \/ state.query = <<"s","l","o","w">> /\ state.category = "NETWORK"

\* C4: a query that is missing or has nothing but whitespace is classified
\* EMPTY, and run_orchestrator returns the empty-input message unchanged.
C4_EmptyQueryGetsEmptyInputMessage ==
  (\A i \in 1..Len(or_empty(state.query)) : state.query[i] \in Whitespace) =>
    /\ pc # "RAISED"
    /\ pc # "START" => state.category = "EMPTY"
    /\ Len(trace) >= 3 => trace[3] = "empty_input_handler"
    /\ pc = "DONE" => result = EMPTY_INPUT_MSG

\* A request of whitespace only has been answered.
C4_Witness ==
  /\ pc = "DONE"
  /\ state.query # None
  /\ Len(state.query) > 0
  /\ \A i \in 1..Len(state.query) : state.query[i] \in Whitespace
  /\ result = EMPTY_INPUT_MSG

\* C5: route_query names exactly one handler for every category value:
\* the handler of the table for the eight labels, the fallback handler for
\* every other value.
C5_RouteIsTotalLookup ==
  LET expected == CASE state.category = "EMPTY" -> "empty_input_handler"
                    [] state.category = "JOKE" -> "joke_node"
                    [] state.category = "MULTI" -> "multi_node"
                    [] state.category = "BILLING" -> "crew_ai_node"
                    [] state.category = "NETWORK" -> "autogen_node"
                    [] state.category = "SERVICE" -> "langchain_node"
                    [] state.category = "KNOWLEDGE" -> "llamaindex_node"
                    [] OTHER -> "fallback_handler"
  IN  /\ route_query(state) = expected
      /\ pc \in HandlerNodes => pc = expected
      /\ Len(trace) >= 3 => trace[3] \in {expected, "RAISED"}

\* A category outside the table has been routed to the fallback handler.
C5_Witness ==
  /\ pc = "fallback_handler"
  /\ state.category = "UNKNOWN"
  /\ state.response = FALLBACK_MSG

\* C6: the states a request visits are, in order, START, CLASSIFIED, the one
\* handler state route_query selects, DONE: none twice, no second handler,
\* and a handler state always has the step to DONE.
C6_OnePathThroughTheGraph ==
  LET visited == IF trace[Len(trace)] = "RAISED" THEN SubSeq(trace, 1, Len(trace) - 1)
                 ELSE trace
      path == <<"START", "CLASSIFIED", route_query(state), "DONE">>
  IN  /\ Len(visited) \in 1..4
      /\ \A i \in 1..Len(visited) : visited[i] = path[i]
      /\ \A i, j \in 1..Len(visited) : visited[i] = visited[j] => i = j
      /\ Cardinality({i \in 1..Len(visited) : visited[i] \in HandlerNodes}) <= 1
      /\ pc = visited[Len(visited)] \/ pc = "RAISED"
      /\ pc \in HandlerNodes => ENABLED ReturnResponse

\* A request has gone through all four states.
C6_Witness ==
  /\ pc = "DONE"
  /\ trace = <<"START", "CLASSIFIED", "autogen_node", "DONE">>

\* C7: the category is set when the classifier has run and no later step
\* changes it; a handler node changes no key of the state but response, also
\* multi_node when it runs the classifier again.
C7_CategoryFixedAfterClassification ==
  /\ [](pc \in HandlerNodes \cup {"CLASSIFIED", "DONE"}
          => state.category \in {"EMPTY", "JOKE", "MULTI", "BILLING", "NETWORK", "SERVICE",
                                 "KNOWLEDGE", "OTHER"})
  /\ [](\A l \in LLMOutcomes :
          LET r == multi_node([query |-> <<"M","u","m","b","a","i">>, customer_id |-> "CUST001"],
                              [billing |-> NotCalled, service |-> NotCalled,
                               knowledge |-> NotCalled, llm |-> l,
                               network |-> [db |-> DbNotCalled, docs |-> NotCalled],
                               network_retry |-> [db |-> DbNotCalled, docs |-> NotCalled]])
          IN  ~r.raised => DOMAIN r.update = {"response"})
  /\ [][/\ \A k \in DOMAIN state \ {"category", "response"} : state'[k] = state[k]
        /\ pc # "START" => state'.category = state.category
        /\ pc \notin HandlerNodes \cup {"CLASSIFIED"} => state'.response = state.response]_vars

\* multi_node has run on a request classified MULTI.
C7_Witness ==
  /\ pc = "multi_node"
  /\ state.category = "MULTI"
  /\ state.response # None
  /\ state.query = SAMPLE_MULTI

\* C8: multi_node's answer has a section for a category only if the
\* category's terms occur in the query, and multi_node calls no handler of a
\* category whose terms do not occur; the sample query of two intents yields
\* exactly the sections Billing and Network.
C8_SectionsOnlyForMatchedGroups ==
  (Len(trace) >= 3 /\ trace[3] = "multi_node") =>
    LET q == lower(state.query)
        groups == {[label |-> <<"B","i","l","l","i","n","g">>, terms |-> billing_terms,
                    fns |-> {"process_billing_query"}],
                   [label |-> <<"N","e","t","w","o","r","k">>, terms |-> network_terms,
                    fns |-> {"check_network_status", "search_troubleshooting_docs"}],
                   [label |-> <<"S","e","r","v","i","c","e">>, terms |-> service_terms,
                    fns |-> {"process_recommendation_query"}],
                   [label |-> <<"K","n","o","w","l","e","d","g","e">>, terms |-> knowledge_terms,
                    fns |-> {"process_knowledge_query"}]}
    IN  /\ \A g \in groups :
             ~any_in(g.terms, q) =>
               /\ \A i \in 1..Len(branches) : branches[i].tag # g.label
               /\ ~Contains(state.response, <<"#","#","#"," ">> \o g.label
                                              \o <<" ","R","e","s","p","o","n","s","e">>)
               /\ \A k \in 1..Len(calls) : calls[k].fn \notin g.fns
        /\ \A i \in 1..Len(branches) : \E g \in groups : branches[i].tag = g.label
        /\ state.query = SAMPLE_MULTI =>
             [i \in 1..Len(branches) |-> branches[i].tag]
               = << <<"B","i","l","l","i","n","g">>, <<"N","e","t","w","o","r","k">> >>

\* multi_node has answered the sample query of two intents.
C8_Witness ==
  /\ pc = "multi_node"
  /\ state.query = SAMPLE_MULTI
  /\ Len(branches) = 2
  /\ \E k \in 1..Len(calls) : calls[k].fn = "process_billing_query"

\* C9: when a branch ran, multi_node's answer is the sections
\* "### <Label> Response\n<text>\n" joined by "\n---\n", one section per
\* matched category, in the order Billing, Network, Service, Knowledge.
C9_SectionsInFixedOrder ==
  (Len(trace) >= 3 /\ trace[3] = "multi_node" /\ branches # <<>>) =>
    LET q == lower(state.query)
        labels == (IF any_in(billing_terms, q) THEN << <<"B","i","l","l","i","n","g">> >>
                   ELSE <<>>)
                  \o (IF any_in(network_terms, q) THEN << <<"N","e","t","w","o","r","k">> >>
                      ELSE <<>>)
                  \o (IF any_in(service_terms, q) THEN << <<"S","e","r","v","i","c","e">> >>
                      ELSE <<>>)
                  \o (IF any_in(knowledge_terms, q)
                      THEN << <<"K","n","o","w","l","e","d","g","e">> >> ELSE <<>>)
    IN  /\ [i \in 1..Len(branches) |-> branches[i].tag] = labels
        /\ state.response
             = join(<<"\n","-","-","-","\n">>,
                    [i \in 1..Len(branches) |->
                       <<"#","#","#"," ">> \o labels[i]
                         \o <<" ","R","e","s","p","o","n","s","e","\n">>
                         \o branches[i].text \o <<"\n">>])

\* multi_node has answered a query of all four categories and a handler it
\* called has raised.
C9_Witness ==
  /\ pc = "multi_node"
  /\ Len(branches) = 4
  /\ \E k \in 1..Len(calls) : calls[k].kind = "raise"

\* C10: in multi_node, a branch whose handler raises contributes
\* "Error: <message>", and the other matched branches still run and
\* contribute.
C10_RaisingBranchContributesErrorText ==
  (Len(trace) >= 3 /\ trace[3] = "multi_node") =>
    LET q == lower(state.query)
        matches == (IF any_in(billing_terms, q) THEN 1 ELSE 0)
                   + (IF any_in(network_terms, q) THEN 1 ELSE 0)
                   + (IF any_in(service_terms, q) THEN 1 ELSE 0)
                   + (IF any_in(knowledge_terms, q) THEN 1 ELSE 0)
    IN  /\ Len(branches) = matches
        /\ \A k \in 1..Len(calls) :
             (calls[k].kind = "raise" /\ calls[k].fn = "process_billing_query")
               => branches[1] = [tag |-> <<"B","i","l","l","i","n","g">>,
                                 text |-> <<"E","r","r","o","r",":"," ">> \o calls[k].text]

\* C11: the Network section of multi_node's answer carries no raw error text:
\* it does not start with "error" in any case, and it contains neither
\* "operationalerror", nor "no such column", nor the message of an exception
\* that the status lookup or the document search raised.
C11_NetworkSectionHasNoErrorText ==
  (Len(trace) >= 3 /\ trace[3] = "multi_node") =>
    \A i \in 1..Len(branches) :
      branches[i].tag = <<"N","e","t","w","o","r","k">> =>
        /\ ~MatchAt(lower(branches[i].text), <<"e","r","r","o","r">>, 1)
        /\ ~Contains(lower(branches[i].text),
                     <<"o","p","e","r","a","t","i","o","n","a","l","e","r","r","o","r">>)
        /\ ~Contains(lower(branches[i].text),
                     <<"n","o"," ","s","u","c","h"," ","c","o","l","u","m","n">>)
        /\ \A k \in 1..Len(calls) :
             (calls[k].kind = "raise"
                /\ calls[k].fn \in {"check_network_status", "search_troubleshooting_docs"})
               => ~Contains(branches[i].text, calls[k].text)

\* C12: _sanitize_response is idempotent: applied to its own output it
\* returns that output.
C12_SanitizeIsIdempotent ==
  pc = "sanitized_again" => trace[2] = trace[1]

\* C13: the output of _sanitize_response has no line that starts with "#", no
\* "**" or "__" wrapper pair, no [text](url) link and no run of three
\* newlines.
C13_SanitizedTextHasNoMarkup ==
  pc \in {"sanitized", "sanitized_again"} =>
    /\ \A i \in 1..Len(result) : result[i] = "#" => (i > 1 /\ result[i - 1] # "\n")
    /\ \A i \in 1..Len(result) : match_end("bold", result, i) = 0
    /\ \A i \in 1..Len(result) : match_end("link", result, i) = 0
    /\ ~Contains(result, <<"\n", "\n", "\n">>)

\* C14: when a location is found and the status lookup returns rows whose
\* area contains it, process_network_query returns a text with every such row
\* rendered as "Area: <area> \u2014 Status: <status>. <details> (updated:
\* <timestamp>)" and without the checklist block, whatever the document
\* search did.
C14_OutageRowsRenderedWithoutChecklist ==
  (pc = "diagnosed" /\ truthy(extract_location(lower(strip(state.query))))
     /\ state.db.kind = "return") =>
    LET location == extract_location(lower(strip(state.query)))
        rows == state.db.table
        hits == {i \in 1..Len(rows) : Contains(lower(rows[i].area), location)}
    IN  hits # {} =>
          /\ \A i \in hits :
               Contains(result,
                        <<"A","r","e","a",":"," ">> \o rows[i].area
                          \o <<" ","U+2014"," ","S","t","a","t","u","s",":"," ">> \o rows[i].status
                          \o <<"."," ">> \o rows[i].details
                          \o <<" ","(","u","p","d","a","t","e","d",":"," ">> \o rows[i].updated_at \o <<")">>)
          /\ (\E i \in hits : rows[i].status = <<"O","u","t","a","g","e">>)
               => Contains(result, <<"S","t","a","t","u","s",":"," ","O","u","t","a","g","e">>)
          /\ ~Contains(result, CHECKLIST)
          /\ ~Contains(result, <<"Q","u","i","c","k"," ","c","h","e","c","k","s"," ","(","d",
              "o"," ","t","h","e","s","e"," ","f","i","r","s","t",")",":">>)
          /\ ~Contains(result, <<"P","l","e","a","s","e"," ","p","r","o","v","i","d","e"," ",
              "t","h","e"," ","f","o","l","l","o","w","i","n","g">>)

\* The seeded outage row has been reported for a query that names its area,
\* with a document search that raised.
C14_Witness ==
  /\ pc = "diagnosed"
  /\ state.db.kind = "return"
  /\ state.db.table # <<>>
  /\ state.docs.kind = "raise"
  /\ Contains(result, <<"S","t","a","t","u","s",":"," ","O","u","t","a","g","e">>)

\* C15: with no outage reported (no location found, or a lookup that returned
\* no row of the location) and a document result that is empty, starts with
\* "Error" or has at most 50 characters, process_network_query returns the
\* status and document text followed by the whole checklist with its five
\* requests for facts, the same block with and without location or device.
C15_ChecklistAppendedWhenNothingFound ==
  pc = "diagnosed" =>
    LET found == extract_location_and_device(state.query)
        docs_result == search_troubleshooting_docs(state.query, state.docs)
        no_outage == \/ ~truthy(found.location)
                     \/ /\ state.db.kind = "return"
                        /\ \A i \in 1..Len(state.db.table) :
                             ~Contains(lower(state.db.table[i].area), found.location)
        unhelpful == \/ docs_result = <<>>
                     \/ MatchAt(docs_result, <<"E","r","r","o","r">>, 1)
                     \/ Len(docs_result) <= 50
        head == (IF truthy(found.location)
                 THEN <<"N","e","t","w","o","r","k"," ","s","t","a","t","u","s"," ","c","h",
                     "e","c","k"," ","f","o","r"," ","'">>
                        \o found.location \o <<"'",":","\n">>
                        \o <<"N","o"," ","r","e","p","o","r","t","e","d"," ","n","e","t","w",
                            "o","r","k"," ","i","n","c","i","d","e","n","t","s"," ","f","o",
                            "u","n","d"," ","i","n"," ","'">>
                        \o found.location \o <<"'",".">>
                 ELSE <<"N","o"," ","e","x","p","l","i","c","i","t"," ","l","o","c","a","t",
                     "i","o","n"," ","d","e","t","e","c","t","e","d"," ","i","n"," ","y","o",
                     "u","r"," ","q","u","e","s","t","i","o","n",";"," ","s","k","i","p","p",
                     "i","n","g"," ","o","u","t","a","g","e"," ","l","o","o","k","u","p",".">>)
                \o <<"\n","\n","T","r","o","u","b","l","e","s","h","o","o","t","i","n","g"," ",
                    "s","u","g","g","e","s","t","i","o","n","s",":","\n">>
                \o docs_result
    IN  (no_outage /\ unhelpful) =>
          /\ result = head \o <<"\n", "\n">> \o CHECKLIST
          /\ \A fact \in {
               <<"-"," ","E","x","a","c","t"," ","l","o","c","a","t","i","o","n"," ","(","e",".",
                 "g",".",","," ","'","M","u","m","b","a","i"," ","W","e","s","t","'"," ","o","r",
                 " ","f","u","l","l"," ","n","e","i","g","h","b","o","r","h","o","o","d","/","a",
                 "d","d","r","e","s","s",")",".">>,
               <<"-"," ","D","e","v","i","c","e"," ","m","o","d","e","l"," ","(","e",".","g",".",
                 ","," ","i","P","h","o","n","e"," ","1","4",","," ","S","a","m","s","u","n","g",
                 " ","G","a","l","a","x","y"," ","S","2","2",")",".">>,
               <<"-"," ","W","h","a","t"," ","h","a","p","p","e","n","s"," ","w","h","e","n"," ",
                 "y","o","u"," ","t","r","y"," ","t","o"," ","c","a","l","l","?"," ","(","e","r",
                 "r","o","r"," ","m","e","s","s","a","g","e",","," ","c","a","l","l"," ","d","r",
                 "o","p","s",","," ","b","u","s","y"," ","t","o","n","e",")",".">>,
               <<"-"," ","W","h","e","n"," ","d","i","d"," ","t","h","e"," ","i","s","s","u","e",
                 " ","s","t","a","r","t","?"," ","H","a","s"," ","i","t"," ","h","a","p","p","e",
                 "n","e","d"," ","b","e","f","o","r","e","?">>,
               <<"-"," ","A","r","e"," ","o","t","h","e","r"," ","u","s","e","r","s"," ","i","n",
                 " ","t","h","e"," ","s","a","m","e"," ","l","o","c","a","t","i","o","n"," ","a",
                 "f","f","e","c","t","e","d","?">>} :
               Contains(CHECKLIST, fact)

\* The checklist has been appended for a query with a location and a device
\* and for one with neither.
C15_Witness ==
  /\ pc = "diagnosed"
  /\ state.docs.kind = "raise"
  /\ Len(result) > Len(CHECKLIST)
  /\ SubSeq(result, Len(result) - Len(CHECKLIST) + 1, Len(result)) = CHECKLIST
  /\ truthy(extract_location_and_device(state.query).location)
  /\ state.db.kind = "return"

\* C16: a failure inside the status lookup does not reach the caller: the
\* lookup's text is the "internal database mismatch" message when the error
\* text names a missing table or column and the "internal error" message
\* otherwise, and the text of the error is not in the answer.
C16_LookupFailureGivesFixedMessage ==
  (pc = "diagnosed" /\ state.db.kind = "raise") =>
    LET schema == \/ Contains(lower(state.db.text),
                              <<"n","o"," ","s","u","c","h"," ","t","a","b","l","e">>)
                  \/ Contains(lower(state.db.text),
                              <<"n","o"," ","s","u","c","h"," ","c","o","l","u","m","n">>)
        mismatch == Contains(result,
                             <<"d","u","e"," ","t","o"," ","a","n"," ","i","n","t","e","r","n",
                               "a","l"," ","d","a","t","a","b","a","s","e"," ","m","i","s","m",
                               "a","t","c","h">>)
        internal == Contains(result,
                             <<"d","u","e"," ","t","o"," ","a","n"," ","i","n","t","e","r","n",
                               "a","l"," ","e","r","r","o","r">>)
    IN  /\ result # None
        /\ mismatch = schema
        /\ internal = ~schema
        /\ ~Contains(result, state.db.text)

\* C17: in a request of a single category, when the billing, service or
\* knowledge handler raises, the response does not contain the message of the
\* error and is no "Error ..." text.
C17_HandlerFailureGivesFriendlyMessage ==
  (Len(trace) >= 3
     /\ trace[3] \in {"crew_ai_node", "autogen_node", "langchain_node", "llamaindex_node"}) =>
    \A k \in 1..Len(calls) :
      (calls[k].kind = "raise"
         /\ calls[k].fn \in {"process_billing_query", "process_recommendation_query",
                             "process_knowledge_query"})
        => /\ ~Contains(state.response, calls[k].text)
           /\ ~MatchAt(state.response, <<"E","r","r","o","r">>, 1)

\* C18: the text run_orchestrator returns is never empty, for every category
\* and every outcome of a handler.
C18_ResponseIsNeverEmpty ==
  pc = "DONE" => (result # None /\ strip(result) # <<>>)

\* C19: within one request no domain handler is invoked twice.  The network
\* diagnosis searches the documents once each time it runs, so the calls of
\* search_troubleshooting_docs count its runs.
C19_HandlersInvokedAtMostOnce ==
  \A fn \in {"process_billing_query", "search_troubleshooting_docs",
             "process_recommendation_query", "process_knowledge_query"} :
    Cardinality({k \in 1..Len(calls) : calls[k].fn = fn}) <= 1

\* C20: for a query classified JOKE, run_orchestrator returns a text that is
\* not empty and has no pipe character, whatever the joke inference call does.
C20_JokeIsNonEmptyWithoutPipe ==
  (pc = "DONE" /\ state.category = "JOKE") =>
    /\ result # None
    /\ strip(result) # <<>>
    /\ \A i \in 1..Len(result) : result[i] # "|"

\* C21: whatever the category, the text run_orchestrator returns has no line
\* that starts with "#" and no line made only of three or more hyphens, as
\* the output of the sanitizer would not.
C21_ResponseHasNoHeadingOrRuleLine ==
  pc = "DONE" =>
    \A i \in 1..Len(result) :
      (i = 1 \/ result[i - 1] = "\n") =>
        /\ result[i] # "#"
        /\ ~\E j \in (i + 2)..Len(result) :
              /\ \A k \in i..j : result[k] = "-"
              /\ j = Len(result) \/ result[j + 1] = "\n"

\* C22: a query that is not empty and has a joke keyword is classified JOKE,
\* also when it has terms of the billing, network, service or knowledge
\* groups, and the classification call is not made.
C22_JokeKeywordWinsOverGroups ==
  (/\ pc \notin {"START", "RAISED"}
   /\ any_in(joke_kw, lower(strip(or_empty(state.query))))) =>
    /\ state.category = "JOKE"
    /\ \A k \in 1..Len(calls) : calls[k].fn # "classify_llm"

\* "Bill joke" has a billing term and a joke keyword and is classified JOKE.
C22_Witness ==
  /\ pc = "CLASSIFIED"
  /\ state.query = <<"B","i","l","l"," ","j","o","k","e">>
  /\ present(lower(state.query)) = 1
  /\ state.category = "JOKE"

\* C23: the classification call is made at most once, and only for a query
\* that is not empty, has no joke keyword and has no term of the four
\* groups; a query the heuristics decide makes no classification call.
C23_ClassificationCallOnlyWhenUndecided ==
  LET q_lower == lower(strip(or_empty(state.query)))
      made == {k \in 1..Len(calls) : calls[k].fn = "classify_llm"}
  IN  /\ Cardinality(made) <= 1
      /\ made # {} =>
           /\ q_lower # <<>>
           /\ ~any_in(joke_kw, q_lower)
           /\ ~any_in(billing_terms, q_lower)
           /\ ~any_in(network_terms, q_lower)
           /\ ~any_in(service_terms, q_lower)
           /\ ~any_in(knowledge_terms, q_lower)
           /\ \A k \in made : calls[k].arg = strip(state.query)
      /\ (pc = "CLASSIFIED" /\ made = {}) =>
           \/ q_lower = <<>>
           \/ any_in(joke_kw, q_lower)
           \/ present(q_lower) >= 1

\* "Mumbai" has no keyword: the call was made, once, and gave the category.
C23_Witness ==
  /\ pc = "CLASSIFIED"
  /\ state.query = <<"M","u","m","b","a","i">>
  /\ Len(calls) = 1
  /\ calls[1].fn = "classify_llm"
  /\ state.category = "SERVICE"

\* C24: when multi_node runs on a query no keyword group matches, no branch
\* runs, the query is classified again with at most one classification call,
\* and the response is the fallback message when the new category is OTHER
\* and the empty text for every other category.
C24_NoBranchReclassifiesOnce ==
  (/\ pc \in {"multi_node", "DONE"}
   /\ trace[3] = "multi_node"
   /\ present(lower(state.query)) = 0) =>
    /\ branches = <<>>
    /\ Len(calls) <= 1
    /\ \A k \in 1..Len(calls) : calls[k].fn = "classify_llm" /\ calls[k].kind = "return"
    /\ state.response =
         IF calls # <<>> /\ normalize_category(calls[1].text) = "OTHER"
         THEN FALLBACK_MSG
         ELSE <<>>

\* multi_node ran on "Mumbai": the new category is OTHER and the response is
\* the fallback message, or it is BILLING and the response is empty.
C24_Witness ==
  /\ pc = "multi_node"
  /\ state.query = <<"M","u","m","b","a","i">>
  /\ branches = <<>>
  /\ Len(calls) = 1
  /\ \/ normalize_category(calls[1].text) = "OTHER" /\ state.response = FALLBACK_MSG
     \/ normalize_category(calls[1].text) = "BILLING" /\ state.response = <<>>

\* C25: process_network_query calls the status lookup only when the extractor
\* found a location that is not empty; without one the lookup is not called,
\* the answer starts with the note that the lookup is skipped, and the
\* document search is still made, exactly once, as the last call.
C25_LookupOnlyWithLocation ==
  pc = "diagnosed" =>
    LET location == extract_location_and_device(state.query).location
        lookups == {k \in 1..Len(calls) : calls[k].fn = "check_network_status"}
        searches == {k \in 1..Len(calls) : calls[k].fn = "search_troubleshooting_docs"}
    IN  /\ lookups # {} => truthy(location)
        /\ Cardinality(lookups) <= 1
        /\ ~truthy(location) =>
             /\ lookups = {}
             /\ MatchAt(result, SKIPPING_LOOKUP_MSG \o <<"\n", "\n">>, 1)
        /\ searches = {Len(calls)}

\* "slow" names no place: the document search is the only call and the
\* answer starts with the note.
C25_Witness ==
  /\ pc = "diagnosed"
  /\ state.query = <<"s","l","o","w">>
  /\ Len(calls) = 1
  /\ calls[1].fn = "search_troubleshooting_docs"
  /\ MatchAt(result, SKIPPING_LOOKUP_MSG, 1)

\* C26: every query of run_samples that has a joke keyword or a term of a
\* keyword group is classified as the category it is labelled with; a
\* BILLING sample that mentions both a bill and a charge is BILLING, not
\* MULTI.
C26_SamplesClassifiedAsLabelled ==
  \A i \in 1..Len(samples) :
    (/\ pc \notin {"START", "RAISED"}
     /\ state.query = samples[i].q
     /\ \/ any_in(joke_kw, lower(samples[i].q))
        \/ present(lower(samples[i].q)) >= 1) =>
      state.category = samples[i].typ

\* The third sample has the terms "charge" and "bill" and is classified
\* BILLING.
C26_Witness ==
  /\ pc = "CLASSIFIED"
  /\ state.query = samples[3].q
  /\ Contains(lower(state.query), <<"c","h","a","r","g","e">>)
  /\ Contains(lower(state.query), <<"b","i","l","l">>)
  /\ samples[3].typ = "BILLING"
  /\ state.category = "BILLING"

\* C27: multi_node is reached only for a query that matches two or more
\* keyword groups, and it finds the same groups in the query: at least two
\* sections are collected, the query is not classified again, so no
\* classification call is made, and classify_query ran once.
C27_AggregatorHasTwoSections ==
  (pc \in {"multi_node", "DONE"} /\ trace[3] = "multi_node") =>
    /\ present(lower(strip(state.query))) >= 2
    /\ present(lower(state.query)) = present(lower(strip(state.query)))
    /\ Len(branches) = present(lower(state.query))
    /\ state.response = combine_sections(branches)
    /\ \A k \in 1..Len(calls) : calls[k].fn # "classify_llm"
    /\ Cardinality({k \in 1..Len(trace) : trace[k] = "CLASSIFIED"}) = 1

\* multi_node ran on " Bill plan\n" and collected the Billing and the Service
\* section.
C27_Witness ==
  /\ pc = "multi_node"
  /\ state.category = "MULTI"
  /\ state.query = <<" ","B","i","l","l"," ","p","l","a","n","\n">>
  /\ Len(branches) = 2
  /\ branches[1].tag = TAG_BILLING
  /\ branches[2].tag = TAG_SERVICE

\* C28: process_network_query leaves the checklist out only when the status
\* lookup returned a row of the location or the document result is
\* actionable; when the lookup failed and the document result is not
\* actionable, the checklist is appended.
C28_ChecklistOmittedOnlyForIncidentOrDocs ==
  pc = "diagnosed" =>
    LET found == extract_location_and_device(state.query)
        docs_result == search_troubleshooting_docs(state.query, state.docs)
        incident == /\ truthy(found.location)
                    /\ state.db.kind = "return"
                    /\ \E i \in 1..Len(state.db.table) :
                         Contains(lower(state.db.table[i].area), found.location)
        actionable == /\ docs_result # <<>>
                      /\ ~MatchAt(docs_result, <<"E","r","r","o","r">>, 1)
                      /\ Len(docs_result) > 50
        appended == /\ Len(result) > Len(CHECKLIST)
                    /\ SubSeq(result, Len(result) - Len(CHECKLIST) + 1, Len(result)) = CHECKLIST
    IN  /\ ~appended => (incident \/ actionable)
        /\ (state.db.kind = "raise" /\ ~actionable) => appended

\* C29: the response is fixed by the query, the customer and what the
\* collaborators did: every run of joke_node on the same query with the same
\* outcome of the joke inference call, whatever random.choice draws, gives
\* the response of this run, and the nodes of the other categories give the
\* text their handler's outcome fixes.
C29_ResponseFixedByInputs ==
  (pc \in HandlerNodes /\ state.query # None) =>
    LET last == IF calls = <<>> THEN NotCalled
                ELSE [kind |-> calls[Len(calls)].kind, text |-> calls[Len(calls)].text]
    IN  /\ pc = "joke_node" =>
             \A pick \in 1..Len(fallback_jokes) :
               joke_node(state, last, pick).update.response = state.response
        /\ pc = "crew_ai_node" => state.response = crew_ai_node(state, last).update.response
        /\ pc = "langchain_node" => state.response = langchain_node(state, last).update.response
        /\ pc = "llamaindex_node" => state.response = llamaindex_node(state, last).update.response
        /\ pc = "empty_input_handler" => state.response = EMPTY_INPUT_MSG
        /\ pc = "fallback_handler" => state.response = FALLBACK_MSG

\* C30: every section multi_node collects holds the sanitizer's output for
\* what the handler produced: the Billing, Service and Knowledge sections for
\* the handler's text or its error text, and the Network section for the
\* answer of the last run of process_network_query, also when that run is the
\* second, direct one.
C30_SectionsAreSanitizerOutput ==
  (pc \in {"multi_node", "DONE"} /\ trace[3] = "multi_node") =>
    \A i \in 1..Len(branches) :
      LET tag == branches[i].tag
          fn == CASE tag = TAG_BILLING -> "process_billing_query"
                  [] tag = TAG_SERVICE -> "process_recommendation_query"
                  [] tag = TAG_KNOWLEDGE -> "process_knowledge_query"
                  [] OTHER -> "search_troubleshooting_docs"
          last == CHOOSE k \in 1..Len(calls) :
                    /\ calls[k].fn = fn
                    /\ \A j \in (k + 1)..Len(calls) : calls[j].fn # fn
          lookup == IF last > 1 /\ calls[last - 1].fn = "check_network_status"
                    THEN calls[last - 1]
                    ELSE DbNotCalled
      IN  IF tag = TAG_NETWORK
          THEN \E n \in NetworkOutcomes(state.query) :
                 /\ n.docs.kind = calls[last].kind
                 /\ n.docs.text = calls[last].text
                 /\ n.db.kind = lookup.kind
                 /\ n.db.text = lookup.text
                 /\ branches[i].text
                      = sanitize_response(process_network_query(state.query, n.db, n.docs))
          ELSE branches[i].text
                 = sanitize_response(
                     IF calls[last].kind = "return" THEN calls[last].text
                     ELSE <<"E","r","r","o","r"," ","i","n"," ">> \o tag
                            \o <<" ","A","g","e","n","t",":"," ">> \o calls[last].text)
====
